---- MODULE Spec2Model ----
(***************************************************************************)
(* A model of the LDPT route planner (src/code.js): the Insertion Scorer,  *)
(* the Stop Sequencer, the Duty-Cycle Simulator, the Route Builder loop,   *)
(* the Rebalancer, the pull-forward pass and the Overflow Handler.         *)
(*                                                                         *)
(* Conventions.  A shipment is a record [id, store, category, pallets,     *)
(* cluster, productTypeId]; its mutable planning fields (attempts,         *)
(* insertionFailures, failureReason) live in the variable shipState, keyed *)
(* by id, because the JavaScript objects are shared by reference between   *)
(* the pool and the routes.  JavaScript null is NoTime for a time of day,  *)
(* "" for a failure reason and [ok |-> FALSE] for a score.  Store          *)
(* identifiers are non-numeric strings (like the depot 'US0007'), so the   *)
(* keys of a JavaScript object are visited in insertion order.  Pallets,   *)
(* miles and minutes are integers here; times are carried in units of      *)
(* 1/26 minute inside the Duty-Cycle Simulator, which divides pallets by   *)
(* 26.                                                                     *)
(***************************************************************************)
EXTENDS Integers, Sequences, FiniteSets, TLC

\* ------------------------------------------------------------ utilities

SeqToSet(s) == {s[i] : i \in 1..Len(s)}

Max2(a, b) == IF a >= b THEN a ELSE b

RECURSIVE SumSeq(_)
SumSeq(s) == IF s = <<>> THEN 0 ELSE Head(s) + SumSeq(Tail(s))

RECURSIVE MaxSeq(_)
MaxSeq(s) == IF s = <<>> THEN 0 ELSE Max2(Head(s), MaxSeq(Tail(s)))

\* [...new Set(xs)]: the distinct elements, in order of first occurrence
RECURSIVE Uniq(_)
Uniq(s) ==
  IF s = <<>> THEN <<>>
  ELSE LET r == Uniq(SubSeq(s, 1, Len(s) - 1))
           x == s[Len(s)]
       IN IF x \in SeqToSet(r) THEN r ELSE Append(r, x)

RemoveAt(s, i) == SubSeq(s, 1, i - 1) \o SubSeq(s, i + 1, Len(s))

StoresOf(stops) == [i \in 1..Len(stops) |-> stops[i].store]

UniqueStores(stops) == Uniq(StoresOf(stops))

PalletSum(stops) == SumSeq([i \in 1..Len(stops) |-> stops[i].pallets])

\* Array.prototype.sort((a, b) => b.pallets - a.pallets): stable, descending
RECURSIVE SortByPalletsDesc(_)
SortByPalletsDesc(s) ==
  IF Len(s) <= 1 THEN s
  ELSE LET r == SortByPalletsDesc(SubSeq(s, 1, Len(s) - 1))
           x == s[Len(s)]
           k == Cardinality({i \in 1..Len(r) : r[i].pallets >= x.pallets})
       IN SubSeq(r, 1, k) \o <<x>> \o SubSeq(r, k + 1, Len(r))

\* ------------------------------------------------------ strings of text

Digits == "0123456789"
LowerCase == "abcdefghijklmnopqrstuvwxyz"
UpperCase == "ABCDEFGHIJKLMNOPQRSTUVWXYZ"

Char(s, i) == SubSeq(s, i, i)

IsDigit(c) == \E d \in 1..10 : Char(Digits, d) = c

DigitVal(c) == (CHOOSE d \in 1..10 : Char(Digits, d) = c) - 1

AllDigits(s) == \A i \in 1..Len(s) : IsDigit(Char(s, i))

\* parseInt(s, 10) of a string of digits
RECURSIVE ParseInt(_)
ParseInt(s) ==
  IF Len(s) = 0 THEN 0
  ELSE 10 * ParseInt(SubSeq(s, 1, Len(s) - 1)) + DigitVal(Char(s, Len(s)))

UpperChar(c) ==
  IF \E k \in 1..26 : Char(LowerCase, k) = c
  THEN Char(UpperCase, CHOOSE k \in 1..26 : Char(LowerCase, k) = c)
  ELSE c

RECURSIVE ToUpperCase(_)
ToUpperCase(s) ==
  IF Len(s) = 0 THEN ""
  ELSE ToUpperCase(SubSeq(s, 1, Len(s) - 1)) \o UpperChar(Char(s, Len(s)))

RECURSIVE Trim(_)
Trim(s) ==
  IF Len(s) = 0 THEN s
  ELSE IF Char(s, 1) = " " THEN Trim(SubSeq(s, 2, Len(s)))
  ELSE IF Char(s, Len(s)) = " " THEN Trim(SubSeq(s, 1, Len(s) - 1))
  ELSE s

\* String.prototype.includes
Includes(s, sub) ==
  \E i \in 1..(Len(s) - Len(sub) + 1) : SubSeq(s, i, i + Len(sub) - 1) = sub

\* the positions of the character c in s
Positions(s, c) == {i \in 1..Len(s) : Char(s, i) = c}

\* ------------------------------------------------------- time of day

NoTime == 0 - 1

parseTimeToMinutes(timeStr) ==
  LET n == Len(timeStr)
      colonForm == /\ n \in {4, 5}
                   /\ Char(timeStr, n - 2) = ":"
                   /\ AllDigits(SubSeq(timeStr, 1, n - 3))
                   /\ AllDigits(SubSeq(timeStr, n - 1, n))
      suffix == ToUpperCase(SubSeq(timeStr, n - 1, n))
      ampmForm == /\ n \in {3, 4}
                  /\ suffix \in {"AM", "PM"}
                  /\ AllDigits(SubSeq(timeStr, 1, n - 2))
      hours == ParseInt(SubSeq(timeStr, 1, n - 2))
  IN IF n = 0 THEN NoTime
     ELSE IF colonForm
       THEN ParseInt(SubSeq(timeStr, 1, n - 3)) * 60 + ParseInt(SubSeq(timeStr, n - 1, n))
     ELSE IF ampmForm
       THEN (IF hours = 12 THEN (IF suffix = "AM" THEN 0 ELSE 12)
             ELSE IF suffix = "PM" THEN hours + 12 ELSE hours) * 60
     ELSE NoTime

\* the comparison of line 813-814 on the three parsed times
\* (variant: every window is read as one that wraps past midnight)
WindowHoldsMut(routeTime, startTime, endTime) ==
  IF routeTime = NoTime \/ startTime = NoTime \/ endTime = NoTime THEN TRUE
  ELSE routeTime >= startTime \/ routeTime <= endTime

WindowHolds(routeTime, startTime, endTime) ==
  IF routeTime = NoTime \/ startTime = NoTime \/ endTime = NoTime THEN TRUE
  ELSE IF startTime <= endTime
    THEN routeTime >= startTime /\ routeTime <= endTime
    ELSE routeTime >= startTime \/ routeTime <= endTime

\* the two parts of a window string around its only "-"
WindowPart(windowStr, dash, first) ==
  IF first THEN Trim(SubSeq(windowStr, 1, dash - 1))
  ELSE Trim(SubSeq(windowStr, dash + 1, Len(windowStr)))

isTimeInWindow(routeTimeStr, windowStr) ==
  IF Trim(windowStr) = "" \/ ToUpperCase(Trim(windowStr)) = "N/A" THEN TRUE
  ELSE IF Cardinality(Positions(windowStr, "-")) # 1 THEN TRUE
  ELSE \E dash \in Positions(windowStr, "-") :
         WindowHolds(parseTimeToMinutes(routeTimeStr),
                     parseTimeToMinutes(WindowPart(windowStr, dash, TRUE)),
                     parseTimeToMinutes(WindowPart(windowStr, dash, FALSE)))

\* ------------------------------------------- temperature compatibility

Categories == {"Ambient", "Chiller", "Freezer", "Produce"}

CategoriesOf(stops) == {stops[i].category : i \in 1..Len(stops)}

\* perStoreCounts of checkAndScoreInsertion and isRouteValid
PerStoreCounts(stops) ==
  [st \in SeqToSet(StoresOf(stops)) |->
    [c \in Categories |->
      SumSeq([i \in 1..Len(stops) |->
        IF stops[i].store = st /\ stops[i].category = c THEN stops[i].pallets ELSE 0])]]

\* options = [allowAllAll, smallAmbientThreshold, perStoreCounts]
\* (variant: Freezer is kept from Chiller only)
isTempCompatibleMutFreezer(requiredCategories, options) ==
  LET smallAmbientThreshold ==
        IF options.smallAmbientThreshold = 0 THEN 6 ELSE options.smallAmbientThreshold
      counts == options.perStoreCounts
  IN IF "Freezer" \in requiredCategories
       THEN ~("Chiller" \in requiredCategories)
     ELSE IF options.allowAllAll
       THEN \A st \in DOMAIN counts :
              ~(counts[st]["Chiller"] > 0
                /\ counts[st]["Ambient"] + counts[st]["Produce"] > smallAmbientThreshold)
     ELSE TRUE

\* (variant: without the per-store threshold)
isTempCompatibleMutThreshold(requiredCategories, options) ==
  LET counts == options.perStoreCounts
  IN IF "Freezer" \in requiredCategories
       THEN ~("Chiller" \in requiredCategories)
            /\ ~("Ambient" \in requiredCategories \/ "Produce" \in requiredCategories)
     ELSE TRUE

isTempCompatible(requiredCategories, options) ==
  LET smallAmbientThreshold ==
        IF options.smallAmbientThreshold = 0 THEN 6 ELSE options.smallAmbientThreshold
      counts == options.perStoreCounts
      hasAmbient == "Ambient" \in requiredCategories
      hasProduce == "Produce" \in requiredCategories
      hasChiller == "Chiller" \in requiredCategories
      hasFreezer == "Freezer" \in requiredCategories
  IN IF hasFreezer
       THEN ~hasChiller /\ ~(hasAmbient \/ hasProduce)
     ELSE IF options.allowAllAll
       THEN \A st \in DOMAIN counts :
              ~(counts[st]["Chiller"] > 0
                /\ counts[st]["Ambient"] + counts[st]["Produce"] > smallAmbientThreshold)
     ELSE ~(hasChiller /\ hasFreezer)

\* the options both callers build from the context
TempOptions(stops, context) ==
  [allowAllAll |-> context.ALLOW_ALL_ALL,
   smallAmbientThreshold |->
     IF context.SMALL_AMBIENT_THRESHOLD = 0 THEN 4 ELSE context.SMALL_AMBIENT_THRESHOLD,
   perStoreCounts |-> PerStoreCounts(stops)]

\* ------------------------------------------------------- trailer size

\* route = [time, stops, ...]; restrictions: store -> [equipmentNight, equipmentDay, deliveryWindow]
\* parseTimeToMinutes(route.time) || 0, then the night test
IsNight(parsed) == parsed = NoTime \/ parsed >= 1140 \/ parsed < 360

\* the loop over the unique stores with the departure being at night or not
SizeFor(stops, restrictions, isNight) ==
  IF \E st \in SeqToSet(StoresOf(stops)) \cap DOMAIN restrictions :
       Includes(IF isNight THEN restrictions[st].equipmentNight
                ELSE restrictions[st].equipmentDay, "36")
  THEN "36"
  ELSE IF \E st \in SeqToSet(StoresOf(stops)) \cap DOMAIN restrictions :
            Includes(IF isNight THEN restrictions[st].equipmentNight
                     ELSE restrictions[st].equipmentDay, "48")
  THEN "48"
  ELSE "53"

getRequiredTrailerSize(route, restrictions) ==
  SizeFor(route.stops, restrictions, IsNight(parseTimeToMinutes(route.time)))

\* the switch on the size class in the scorer, the validator and the route score
CapacityFor(carrier, size) ==
  CASE size = "36" -> carrier.pallets36
    [] size = "48" -> carrier.pallets48
    [] size = "53" -> carrier.pallets53

\* ------------------------------------------------------ the distance oracle

\* distanceMatrix: a function on the directed pairs <<from, to>> that are known
HasLeg(dm, from, to) == <<from, to>> \in DOMAIN dm

\* the legs between the consecutive unique stores u, either direction serving
LegDetails(u, dm) ==
  IF Len(u) < 2 THEN [legDistances |-> <<>>, hasMissingData |-> FALSE]
  ELSE IF \E i \in 2..Len(u) : ~(HasLeg(dm, u[i - 1], u[i]) \/ HasLeg(dm, u[i], u[i - 1]))
    THEN [legDistances |-> <<>>, hasMissingData |-> TRUE]
  ELSE [legDistances |->
          [k \in 1..(Len(u) - 1) |->
            IF HasLeg(dm, u[k], u[k + 1]) THEN dm[<<u[k], u[k + 1]>>].distance
            ELSE dm[<<u[k + 1], u[k]>>].distance],
        hasMissingData |-> FALSE]

getLegDistanceDetails(stops, dm) == LegDetails(UniqueStores(stops), dm)

calculateDistancePenalty(legDistances, preferredThreshold) ==
  SumSeq([i \in 1..Len(legDistances) |->
    IF legDistances[i] <= preferredThreshold THEN 0
    ELSE (legDistances[i] - preferredThreshold) * (legDistances[i] - preferredThreshold)])

\* ------------------------------------------------------- Stop Sequencer

\* (variant: the last of equal distances, dist <= nearestDist)
NearestIndexMut(remaining, currentLocation, dm) ==
  IF \A i \in 1..Len(remaining) : ~HasLeg(dm, currentLocation, remaining[i]) THEN 0
  ELSE CHOOSE i \in 1..Len(remaining) :
         /\ HasLeg(dm, currentLocation, remaining[i])
         /\ \A j \in 1..Len(remaining) :
              HasLeg(dm, currentLocation, remaining[j]) =>
                \/ dm[<<currentLocation, remaining[i]>>].distance
                     < dm[<<currentLocation, remaining[j]>>].distance
                \/ /\ dm[<<currentLocation, remaining[i]>>].distance
                        = dm[<<currentLocation, remaining[j]>>].distance
                   /\ i >= j

\* the index of the nearest of the remaining stores with a known forward edge
\* (0 when none has one), the first of equal distances
NearestIndex(remaining, currentLocation, dm) ==
  IF \A i \in 1..Len(remaining) : ~HasLeg(dm, currentLocation, remaining[i]) THEN 0
  ELSE CHOOSE i \in 1..Len(remaining) :
         /\ HasLeg(dm, currentLocation, remaining[i])
         /\ \A j \in 1..Len(remaining) :
              HasLeg(dm, currentLocation, remaining[j]) =>
                \/ dm[<<currentLocation, remaining[i]>>].distance
                     < dm[<<currentLocation, remaining[j]>>].distance
                \/ /\ dm[<<currentLocation, remaining[i]>>].distance
                        = dm[<<currentLocation, remaining[j]>>].distance
                   /\ i <= j

\* the loop of runNearestNeighbor
RECURSIVE NearestLoop(_, _, _, _)
NearestStep(ordered, remaining, nearestIndex, dm) ==
  IF nearestIndex = 0 THEN ordered \o remaining
  ELSE NearestLoop(Append(ordered, remaining[nearestIndex]),
                   RemoveAt(remaining, nearestIndex), remaining[nearestIndex], dm)

NearestLoop(ordered, remaining, currentLocation, dm) ==
  IF remaining = <<>> THEN ordered
  ELSE NearestStep(ordered, remaining, NearestIndex(remaining, currentLocation, dm), dm)

runNearestNeighbor(items, startLocation, dm) ==
  IF Len(items) < 2 THEN items ELSE NearestLoop(<<>>, items, startLocation, dm)

\* a store with a Chiller or Freezer shipment among the stops
HasCold(stops, st) ==
  \E i \in 1..Len(stops) :
    stops[i].store = st /\ stops[i].category \in {"Chiller", "Freezer"}

\* the cold stores follow the ambient ones, starting from the last ambient store
ColdAfter(orderedAmbient, withCold, warehouse, dm) ==
  orderedAmbient
  \o runNearestNeighbor(withCold,
       IF Len(orderedAmbient) > 0 THEN orderedAmbient[Len(orderedAmbient)] ELSE warehouse,
       dm)

\* finalOrder.forEach(store => optimizedStops.push(...stopsByStore[store]))
RECURSIVE StopsInOrder(_, _)
StopsInOrder(stops, finalOrder) ==
  IF finalOrder = <<>> THEN <<>>
  ELSE SelectSeq(stops, LAMBDA s : s.store = Head(finalOrder))
       \o StopsInOrder(stops, Tail(finalOrder))

advancedOptimizeStopOrder(stops, warehouse, dm) ==
  IF Len(stops) <= 1 THEN stops
  ELSE StopsInOrder(stops,
         ColdAfter(
           runNearestNeighbor(
             SelectSeq(UniqueStores(stops), LAMBDA st : ~HasCold(stops, st)),
             warehouse, dm),
           SelectSeq(UniqueStores(stops), LAMBDA st : HasCold(stops, st)),
           warehouse, dm))

\* ------------------------------------------------- Duty-Cycle Simulator

PALLETS_PER_FLS == 26
ON_DUTY_LIMIT == 14 * 60
DRIVING_LIMIT == 11 * 60
BREAK_THRESHOLD == 8 * 60
BREAK_DURATION == 30
DEFAULT_UNLOAD == 15

\* Math.round of a non-negative quantity held in units of 1/26
Round26(t) == (2 * t + PALLETS_PER_FLS) \div (2 * PALLETS_PER_FLS)

\* (variant: the break is taken on reaching the boundary, >= for >)
AccrueLegMut(m, leg) ==
  LET break == m.onDutyTime + PALLETS_PER_FLS * leg.duration
                 >= (m.breaksTaken + 1) * BREAK_THRESHOLD * PALLETS_PER_FLS
  IN [m EXCEPT !.onDutyTime = @ + (IF break THEN PALLETS_PER_FLS * BREAK_DURATION ELSE 0)
                                + PALLETS_PER_FLS * leg.duration,
               !.breaksTaken = @ + (IF break THEN 1 ELSE 0),
               !.travelTime = @ + PALLETS_PER_FLS * leg.duration,
               !.totalDistance = @ + leg.distance]

\* one leg of calculateRouteMetricsWithHOS: the break check, then the accrual;
\* m = [travelTime, totalDistance, stopTime, onDutyTime, breaksTaken], times in 1/26 minute
AccrueLeg(m, leg) ==
  LET break == m.onDutyTime + PALLETS_PER_FLS * leg.duration
                 > (m.breaksTaken + 1) * BREAK_THRESHOLD * PALLETS_PER_FLS
  IN [m EXCEPT !.onDutyTime = @ + (IF break THEN PALLETS_PER_FLS * BREAK_DURATION ELSE 0)
                                + PALLETS_PER_FLS * leg.duration,
               !.breaksTaken = @ + (IF break THEN 1 ELSE 0),
               !.travelTime = @ + PALLETS_PER_FLS * leg.duration,
               !.totalDistance = @ + leg.distance]

\* (pallets / PALLETS_PER_FLS) * minutes per unit, in 1/26 minute
LoadingTime(s, dd) ==
  IF <<s.store, s.productTypeId>> \in DOMAIN dd
  THEN s.pallets * dd[<<s.store, s.productTypeId>>].loading
  ELSE 0

UnloadingTime(s, dd) ==
  IF <<s.store, s.productTypeId>> \in DOMAIN dd
     /\ dd[<<s.store, s.productTypeId>>].unloading # 0
  THEN s.pallets * dd[<<s.store, s.productTypeId>>].unloading
  ELSE PALLETS_PER_FLS * DEFAULT_UNLOAD

\* the unloading time at one store, summed over its shipments
TimeAtStore(orderedStops, st, dd) ==
  SumSeq([i \in 1..Len(orderedStops) |->
    IF orderedStops[i].store = st THEN UnloadingTime(orderedStops[i], dd) ELSE 0])

\* if (leg) { ... }: a forward edge that is missing adds nothing
DriveTo(m, currentLocation, to, dm) ==
  IF HasLeg(dm, currentLocation, to) THEN AccrueLeg(m, dm[<<currentLocation, to>>])
  ELSE m

\* one round of the loop over the unique stores: the leg, then the unloading
VisitStore(m, currentLocation, st, orderedStops, dm, dd) ==
  [DriveTo(m, currentLocation, st, dm)
     EXCEPT !.stopTime = @ + TimeAtStore(orderedStops, st, dd),
            !.onDutyTime = @ + TimeAtStore(orderedStops, st, dd)]

\* the loop over the unique stores, then the return leg
RECURSIVE WalkStores(_, _, _, _, _, _, _)
WalkStores(m, currentLocation, stores, orderedStops, warehouse, dm, dd) ==
  IF stores = <<>> THEN DriveTo(m, currentLocation, warehouse, dm)
  ELSE WalkStores(VisitStore(m, currentLocation, Head(stores), orderedStops, dm, dd),
                  Head(stores), Tail(stores), orderedStops, warehouse, dm, dd)

\* the sums before rounding, the loading at the depot first
StartOfDay(loading) ==
  [travelTime |-> 0, totalDistance |-> 0, stopTime |-> loading, onDutyTime |-> loading,
   breaksTaken |-> 0]

RouteMetricsRaw(orderedStops, warehouse, dm, dd) ==
  WalkStores(
    StartOfDay(SumSeq([i \in 1..Len(orderedStops) |-> LoadingTime(orderedStops[i], dd)])),
    warehouse, UniqueStores(orderedStops), orderedStops, warehouse, dm, dd)

\* the rounded figures and the duty status of the raw sums
MetricsOf(m) ==
  [travelTime |-> Round26(m.travelTime),
   stopTime |-> Round26(m.stopTime),
   totalDuration |-> Round26(m.onDutyTime),
   totalDistance |-> m.totalDistance,
   hosStatus |->
     IF m.onDutyTime > ON_DUTY_LIMIT * PALLETS_PER_FLS THEN "ON_DUTY_VIOLATION"
     ELSE IF m.travelTime > DRIVING_LIMIT * PALLETS_PER_FLS THEN "DRIVING_VIOLATION"
     ELSE "OK"]

calculateRouteMetricsWithHOS(orderedStops, warehouse, dm, dd) ==
  MetricsOf(RouteMetricsRaw(orderedStops, warehouse, dm, dd))

\* --------------------------------------------------- Insertion Scorer

Reject == [ok |-> FALSE, score |-> 0]

\* the delivery window of a store, "" when the store has no restriction row
WindowOf(store, restrictions) ==
  IF store \in DOMAIN restrictions THEN restrictions[store].deliveryWindow ELSE ""

\* the guard of line 1203 in front of isTimeInWindow
HasWindow(store, restrictions) ==
  /\ Trim(WindowOf(store, restrictions)) # ""
  /\ ToUpperCase(WindowOf(store, restrictions)) # "N/A"

\* preferredLegThreshold and hardLegLimit of the context
PreferredLegThreshold(context) ==
  IF context.MAX_DISTANCE_BETWEEN_STOPS = 0 THEN 50 ELSE context.MAX_DISTANCE_BETWEEN_STOPS

HardLegLimit(context) ==
  IF context.ABSOLUTE_MAX_DISTANCE_BETWEEN_STOPS = 0
  THEN Max2(75, PreferredLegThreshold(context))
  ELSE context.ABSOLUTE_MAX_DISTANCE_BETWEEN_STOPS

\* lines 1217-1242: the leg checks, the mileage and duty checks and the score, given
\* the leg details and the metrics of the current and of the proposed sequence
ScoreSequenced(carrier, context, currentLegDetails, proposedLegDetails,
               originalMetrics, tempMetrics) ==
  IF currentLegDetails.hasMissingData THEN Reject
  ELSE IF proposedLegDetails.hasMissingData THEN Reject
  ELSE IF MaxSeq(proposedLegDetails.legDistances) > HardLegLimit(context) THEN Reject
  ELSE IF tempMetrics.totalDistance > context.MAX_ROUTE_MILEAGE
          \/ tempMetrics.hosStatus # "OK"
    THEN Reject
  ELSE [ok |-> TRUE,
        score |->
          ((tempMetrics.totalDistance * carrier.costPerMile + carrier.costPerRoute)
             - (originalMetrics.totalDistance * carrier.costPerMile + carrier.costPerRoute))
          + (calculateDistancePenalty(proposedLegDetails.legDistances,
                                      PreferredLegThreshold(context))
               - calculateDistancePenalty(currentLegDetails.legDistances,
                                          PreferredLegThreshold(context)))]

\* the same, from the two sequenced stop lists
ScoreOrders(carrier, context, currentOptimized, tempOptimized) ==
  ScoreSequenced(carrier, context,
    getLegDistanceDetails(currentOptimized, context.distanceMatrix),
    getLegDistanceDetails(tempOptimized, context.distanceMatrix),
    calculateRouteMetricsWithHOS(currentOptimized, context.warehouse,
      context.distanceMatrix, context.detailedDurations),
    calculateRouteMetricsWithHOS(tempOptimized, context.warehouse,
      context.distanceMatrix, context.detailedDurations))

\* line 1192: more distinct stores than MAX_STOPS_GENERAL
\* (variant: the store count is never over the limit)
OverStopLimitMut(stops, context) == FALSE

OverStopLimit(stops, context) ==
  Len(UniqueStores(stops)) > context.MAX_STOPS_GENERAL

\* line 1215: no capacity for the size class, or the pallets over it
\* (variant: the pallets are never over the capacity)
OverCapacityMut(capacity, pallets, context) == FALSE

OverCapacity(capacity, pallets, context) ==
  capacity = 0 \/ pallets * context.OVERPLAN_DEN > capacity * context.OVERPLAN_NUM

\* route = [carrier, time, stops, totalPallets, ...]
checkAndScoreInsertion(shipment, route, context) ==
  IF OverStopLimit(Append(route.stops, shipment), context) THEN Reject
  ELSE IF ~isTempCompatible(CategoriesOf(Append(route.stops, shipment)),
                            TempOptions(Append(route.stops, shipment), context))
    THEN Reject
  ELSE IF HasWindow(shipment.store, context.restrictions)
          /\ ~isTimeInWindow(route.time, WindowOf(shipment.store, context.restrictions))
    THEN Reject
  ELSE IF OverCapacity(
            CapacityFor(route.carrier,
              getRequiredTrailerSize([route EXCEPT !.stops = Append(route.stops, shipment)],
                                     context.restrictions)),
            route.totalPallets + shipment.pallets, context)
    THEN Reject
  ELSE ScoreOrders(route.carrier, context,
         advancedOptimizeStopOrder(route.stops, context.warehouse, context.distanceMatrix),
         advancedOptimizeStopOrder(Append(route.stops, shipment), context.warehouse,
                                   context.distanceMatrix))

\* ------------------------------------------------------- Rebalancer

\* lines 1753 and 1757 on the capacity and the metrics of route.stops
WithinLimits(route, context, capacity, metrics) ==
  /\ route.totalPallets * context.OVERPLAN_DEN <= capacity * context.OVERPLAN_NUM
  /\ metrics.totalDistance <= context.MAX_ROUTE_MILEAGE
  /\ metrics.hosStatus = "OK"

\* line 1736
WithinStops(route, context) ==
  Len(UniqueStores(route.stops)) <= context.MAX_STOPS_GENERAL

\* the metrics are those of route.stops as they stand, not of their sequenced order
isRouteValid(route, context) ==
  /\ WithinStops(route, context)
  /\ isTempCompatible(CategoriesOf(route.stops), TempOptions(route.stops, context))
  /\ WithinLimits(route, context,
       CapacityFor(route.carrier, getRequiredTrailerSize(route, context.restrictions)),
       calculateRouteMetricsWithHOS(route.stops, context.warehouse,
         context.distanceMatrix, context.detailedDurations))

\* Exact fractions.  A route score is a whole part w and a fraction f / ScoreDen
\* with 0 <= f < ScoreDen, so that sums of scores compare without rounding.
RECURSIVE Gcd(_, _)
Gcd(a, b) == IF b = 0 THEN a ELSE Gcd(b, a % b)

Lcm(a, b) == (a * b) \div Gcd(a, b)

\* a common denominator of n / c^2 (utilization) and n / 400 (the 85% mileage target)
ScoreDen(carrier) ==
  LET l == Lcm(20, Lcm(carrier.pallets36, Lcm(carrier.pallets48, carrier.pallets53)))
  IN l * l

Frac(n, den, D) == [w |-> n \div den, f |-> (n % den) * (D \div den)]

FracAdd(a, b, D) == [w |-> a.w + b.w + ((a.f + b.f) \div D), f |-> (a.f + b.f) % D]

FracLess(a, b) == a.w < b.w \/ (a.w = b.w /\ a.f < b.f)

\* Math.pow(1 - totalPallets / capacity, 2) * 5000
UtilizationPenalty(totalPallets, capacity, D) ==
  Frac(5000 * (capacity - totalPallets) * (capacity - totalPallets), capacity * capacity, D)

\* Math.pow(overage / 10, 2) * 100 for the overage over 85% of the cap, the overage
\* held in twentieths of a mile
MileagePenalty(overage20, D) ==
  IF overage20 > 0 THEN Frac(overage20 * overage20, 400, D) ELSE Frac(0, 1, D)

ClusterPenalty(stops) ==
  IF Len(stops) > 1 /\ Cardinality({stops[i].cluster : i \in 1..Len(stops)}) > 1
  THEN 800 ELSE 0

\* the sum of line 1729
ScoreSum(totalCost, clusterPenalty, utilizationPenalty, mileagePenalty, D) ==
  FracAdd(Frac(totalCost + clusterPenalty, 1, D),
          FracAdd(utilizationPenalty, mileagePenalty, D), D)

RouteScoreOf(route, context, metrics, capacity, D) ==
  ScoreSum(metrics.totalDistance * route.carrier.costPerMile + route.carrier.costPerRoute,
           ClusterPenalty(route.stops),
           UtilizationPenalty(route.totalPallets, capacity, D),
           MileagePenalty(20 * metrics.totalDistance
                            - 17 * (IF context.MAX_ROUTE_MILEAGE = 0 THEN 425
                                    ELSE context.MAX_ROUTE_MILEAGE), D),
           D)

calculateRouteScore(route, context) ==
  RouteScoreOf(route, context,
    calculateRouteMetricsWithHOS(route.stops, context.warehouse, context.distanceMatrix,
                                 context.detailedDurations),
    CapacityFor(route.carrier, getRequiredTrailerSize(route, context.restrictions)),
    ScoreDen(route.carrier))

SameSlot(r1, r2) == r1.carrier.name = r2.carrier.name /\ r1.time = r2.time

\* the simulated insertions of the consolidation pass: tempPallets is never advanced
CanMoveAll(source, target, context) ==
  \A k \in 1..Len(source.stops) :
    checkAndScoreInsertion(source.stops[k],
      [target EXCEPT !.stops = target.stops \o SubSeq(source.stops, 1, k - 1),
                     !.totalPallets = target.totalPallets + source.stops[k].pallets],
      context).ok

Merged(source, target) ==
  [target EXCEPT !.stops = target.stops \o source.stops,
                 !.totalPallets = target.totalPallets + source.totalPallets]

CanConsolidate(rs, i, j, context) ==
  /\ i # j
  /\ SameSlot(rs[i], rs[j])
  /\ CanMoveAll(rs[i], rs[j], context)
  /\ isRouteValid(Merged(rs[i], rs[j]), context)

\* the first index whose flag holds, 0 when none does
FirstTrue(flags) ==
  IF \A i \in DOMAIN flags : ~flags[i] THEN 0
  ELSE CHOOSE i \in DOMAIN flags : flags[i] /\ \A u \in 1..(i - 1) : ~flags[u]

\* the first target that takes all stops of route i, 0 when there is none
FirstTarget(rs, i, context) ==
  FirstTrue([j \in 1..Len(rs) |-> CanConsolidate(rs, i, j, context)])

\* first pass of a rebalancing round, from source index i down to 1;
\* st = [routes, improved]
RECURSIVE ConsolidationPass(_, _, _)
ConsolidateInto(st, i, j, context) ==
  IF j = 0 THEN ConsolidationPass(st, i - 1, context)
  ELSE ConsolidationPass(
         [routes |-> RemoveAt([st.routes EXCEPT ![j] = Merged(st.routes[i], st.routes[j])], i),
          improved |-> TRUE],
         i - 1, context)

ConsolidationPass(st, i, context) ==
  IF i < 1 THEN st
  ELSE ConsolidateInto(st, i, FirstTarget(st.routes, i, context), context)

\* the two routes after exchanging stop si of route i with stop sj of route j
Swapped(rs, i, j, si, sj) ==
  [rs EXCEPT
    ![i] = [@ EXCEPT
      !.stops = [rs[i].stops EXCEPT ![si] = rs[j].stops[sj]],
      !.totalPallets = PalletSum([rs[i].stops EXCEPT ![si] = rs[j].stops[sj]])],
    ![j] = [@ EXCEPT
      !.stops = [rs[j].stops EXCEPT ![sj] = rs[i].stops[si]],
      !.totalPallets = PalletSum([rs[j].stops EXCEPT ![sj] = rs[i].stops[si]])]]

\* (variant: the swap stays when the summed score falls, valid routes or not)
KeepSwapMut(rs, new, i, j, context) ==
  FracLess(FracAdd(calculateRouteScore(new[i], context),
                   calculateRouteScore(new[j], context), ScoreDen(rs[i].carrier)),
           FracAdd(calculateRouteScore(rs[i], context),
                   calculateRouteScore(rs[j], context), ScoreDen(rs[i].carrier)))

\* line 1673: the swap stays when the summed score falls and both routes are valid
KeepSwap(rs, new, i, j, context) ==
  /\ FracLess(FracAdd(calculateRouteScore(new[i], context),
                      calculateRouteScore(new[j], context), ScoreDen(rs[i].carrier)),
              FracAdd(calculateRouteScore(rs[i], context),
                      calculateRouteScore(rs[j], context), ScoreDen(rs[i].carrier)))
  /\ isRouteValid(new[i], context)
  /\ isRouteValid(new[j], context)

\* second pass of a rebalancing round, resumed at routes i < j and stops si, sj
RECURSIVE SwapPass(_, _, _, _, _, _)
TrySwap(st, new, i, j, si, sj, context) ==
  IF KeepSwap(st.routes, new, i, j, context)
  THEN SwapPass([routes |-> new, improved |-> TRUE], i, j, si, sj + 1, context)
  ELSE SwapPass(st, i, j, si, sj + 1, context)

SwapPass(st, i, j, si, sj, context) ==
  IF i > Len(st.routes) THEN st
  ELSE IF j > Len(st.routes) THEN SwapPass(st, i + 1, i + 2, 1, 1, context)
  ELSE IF ~SameSlot(st.routes[i], st.routes[j]) \/ si > Len(st.routes[i].stops)
    THEN SwapPass(st, i, j + 1, 1, 1, context)
  ELSE IF sj > Len(st.routes[j].stops) THEN SwapPass(st, i, j, si + 1, 1, context)
  ELSE TrySwap(st, Swapped(st.routes, i, j, si, sj), i, j, si, sj, context)

\* ------------------------------------------------------ Route Builder

\* the carrier object a route refers to, without its time slots
CarrierRef(carrier) ==
  [name |-> carrier.name, costPerMile |-> carrier.costPerMile,
   costPerRoute |-> carrier.costPerRoute, pallets36 |-> carrier.pallets36,
   pallets48 |-> carrier.pallets48, pallets53 |-> carrier.pallets53]

NewRoute(carrier, time, stops, totalPallets, cluster) ==
  [carrier |-> carrier, time |-> time, stops |-> stops, totalPallets |-> totalPallets,
   cluster |-> cluster, routeId |-> "", seedAttempts |-> 0, notes |-> ""]

\* the (carrier, slot) pairs in the order of the two nested loops
SlotPairs(carriers) ==
  LET PairsOf(c) == [s \in 1..Len(carriers[c].timeSlots) |-> <<c, s>>]
      All[c \in 0..Len(carriers)] == IF c = 0 THEN <<>> ELSE All[c - 1] \o PairsOf(c)
  IN All[Len(carriers)]

\* the route findBestInitialCarrier proposes for one slot
SeedRoute(shipment, carriers, p) ==
  NewRoute(CarrierRef(carriers[p[1]]), carriers[p[1]].timeSlots[p[2]].time,
           <<shipment>>, shipment.pallets, shipment.cluster)

\* lines 1156-1159: the slot has a unit left and the scorer accepts the shipment on
\* the route with its stops emptied, totalPallets still counting the shipment
\* (variant: without the test of the slot's used-count)
SeedViableMut(shipment, carriers, usedCount, p, context) ==
  checkAndScoreInsertion(shipment,
    [SeedRoute(shipment, carriers, p) EXCEPT !.stops = <<>>], context).ok

SeedViable(shipment, carriers, usedCount, p, context) ==
  /\ usedCount[p[1]][p[2]] < carriers[p[1]].timeSlots[p[2]].capacity
  /\ checkAndScoreInsertion(shipment,
       [SeedRoute(shipment, carriers, p) EXCEPT !.stops = <<>>], context).ok

SeedCost(shipment, carriers, p, context) ==
  calculateRouteMetricsWithHOS(<<shipment>>, context.warehouse, context.distanceMatrix,
    context.detailedDurations).totalDistance * carriers[p[1]].costPerMile
  + carriers[p[1]].costPerRoute

\* the first of the cheapest pairs; options[k] = [viable, cost] for pair k
CheapestOption(shipment, carriers, pairs, options) ==
  IF \A k \in 1..Len(pairs) : ~options[k].viable THEN [found |-> FALSE]
  ELSE \* the pair is unique, so the set below has one element
       CHOOSE o \in {[found |-> TRUE, c |-> pairs[k][1], s |-> pairs[k][2],
                      route |-> SeedRoute(shipment, carriers, pairs[k])] :
                     k \in {k \in 1..Len(pairs) :
                       /\ options[k].viable
                       /\ \A l \in 1..Len(pairs) :
                            options[l].viable =>
                              \/ options[k].cost < options[l].cost
                              \/ (options[k].cost = options[l].cost /\ k <= l)}} : TRUE

\* [found, c, s, route]
findBestInitialCarrier(shipment, carriers, usedCount, context) ==
  CheapestOption(shipment, carriers, SlotPairs(carriers),
    [k \in 1..Len(SlotPairs(carriers)) |->
      [viable |-> SeedViable(shipment, carriers, usedCount, SlotPairs(carriers)[k], context),
       cost |-> SeedCost(shipment, carriers, SlotPairs(carriers)[k], context)]])

\* the first index of the lowest accepted score, 0 when every score is a rejection
LowestFirst(scores) ==
  IF \A r \in DOMAIN scores : ~scores[r].ok THEN 0
  ELSE CHOOSE r \in DOMAIN scores :
         /\ scores[r].ok
         /\ \A q \in DOMAIN scores :
              scores[q].ok => \/ scores[r].score < scores[q].score
                              \/ (scores[r].score = scores[q].score /\ r <= q)

\* the index of the route with the lowest score for the shipment, 0 when all reject
BestRouteIndex(shipment, rs, context) ==
  LowestFirst([r \in 1..Len(rs) |-> checkAndScoreInsertion(shipment, rs[r], context)])

\* the insertion pass in front of seed selection, from index i down to 1;
\* st = [routes, inserted]
RECURSIVE PreSeedPass(_, _, _, _, _)
InsertAt(st, un, i, r, state, context) ==
  IF r = 0 THEN PreSeedPass(st, un, i - 1, state, context)
  ELSE PreSeedPass(
         [routes |-> [st.routes EXCEPT
            ![r] = [@ EXCEPT !.stops = Append(@, un[i]),
                             !.totalPallets = @ + un[i].pallets]],
          inserted |-> st.inserted \cup {i}],
         un, i - 1, state, context)

PreSeedPass(st, un, i, state, context) ==
  IF i < 1 THEN st
  ELSE IF state[un[i].id].failureReason # "" THEN PreSeedPass(st, un, i - 1, state, context)
  ELSE InsertAt(st, un, i, BestRouteIndex(un[i], st.routes, context), state, context)

\* the elements of s whose index is not in drop
RECURSIVE DropIndices(_, _)
DropIndices(s, drop) ==
  IF s = <<>> THEN <<>>
  ELSE IF Len(s) \in drop THEN DropIndices(SubSeq(s, 1, Len(s) - 1), drop)
  ELSE Append(DropIndices(SubSeq(s, 1, Len(s) - 1), drop), s[Len(s)])

\* (variant: the attempt count is not looked at)
SeedIndexMut(un, state, context) ==
  LET eligible == {i \in 1..Len(un) : state[un[i].id].failureReason = ""}
  IN IF eligible = {} THEN 0 ELSE CHOOSE i \in eligible : \A j \in eligible : i <= j

\* findIndex of line 1060, 0 for -1
SeedIndex(un, state, context) ==
  LET eligible == {i \in 1..Len(un) :
                     /\ state[un[i].id].attempts < context.MAX_PLANNING_ATTEMPTS
                     /\ state[un[i].id].failureReason = ""}
  IN IF eligible = {} THEN 0 ELSE CHOOSE i \in eligible : \A j \in eligible : i <= j

\* the cluster gate of the growth scan
ClusterBlocked(candidate, route, state, context) ==
  /\ route.cluster # "Others"
  /\ candidate.cluster # route.cluster
  /\ ~(\/ state[candidate.id].insertionFailures >= context.CLUSTER_FAILURE_THRESHOLD
       \/ route.seedAttempts >= context.RELAX_MIN_ATTEMPTS)

\* the last index of the lowest accepted score, 0 when there is none: the scan runs
\* from the last index down and replaces the best on a strictly lower score only
LowestLast(scores) ==
  IF \A i \in DOMAIN scores : ~scores[i].ok THEN 0
  ELSE CHOOSE i \in DOMAIN scores :
         /\ scores[i].ok
         /\ \A j \in DOMAIN scores :
              scores[j].ok => \/ scores[i].score < scores[j].score
                              \/ (scores[i].score = scores[j].score /\ i >= j)

\* (variant: a failed shipment is scored like any other)
CandidateScoreMut(un, i, route, state, context) ==
  IF ClusterBlocked(un[i], route, state, context)
    THEN [ok |-> FALSE, score |-> 0, counted |-> TRUE]
  ELSE checkAndScoreInsertion(un[i], route, context) @@ [counted |-> TRUE]

\* the score of candidate i in the growth scan: a failed shipment or one held back by
\* its cluster is not scored
CandidateScore(un, i, route, state, context) ==
  IF state[un[i].id].failureReason # "" THEN [ok |-> FALSE, score |-> 0, counted |-> FALSE]
  ELSE IF ClusterBlocked(un[i], route, state, context)
    THEN [ok |-> FALSE, score |-> 0, counted |-> TRUE]
  ELSE checkAndScoreInsertion(un[i], route, context) @@ [counted |-> TRUE]

\* [best, failed] from the scores: failed are the shipments whose insertionFailures
\* the scan increments
ScanResult(un, scores) ==
  [best |-> LowestLast(scores),
   failed |-> {un[i].id : i \in {k \in DOMAIN scores : ~scores[k].ok /\ scores[k].counted}}]

\* one scan of the growth loop
GrowthScan(un, route, state, context) ==
  ScanResult(un, [i \in 1..Len(un) |-> CandidateScore(un, i, route, state, context)])

\* (variant: the relaxation factor applies from the first attempt)
RelaxedMinimumMut(route, context) ==
  Max2(1, (context.MIN_PALLETS_PER_ROUTE * context.RELAX_MIN_FACTOR_NUM
             + context.RELAX_MIN_FACTOR_DEN - 1) \div context.RELAX_MIN_FACTOR_DEN)

\* Math.max(1, Math.ceil(MIN_PALLETS_PER_ROUTE * (relaxed ? RELAX_MIN_FACTOR : 1)))
RelaxedMinimum(route, context) ==
  IF route.seedAttempts >= context.RELAX_MIN_ATTEMPTS
  THEN Max2(1, (context.MIN_PALLETS_PER_ROUTE * context.RELAX_MIN_FACTOR_NUM
                  + context.RELAX_MIN_FACTOR_DEN - 1) \div context.RELAX_MIN_FACTOR_DEN)
  ELSE Max2(1, context.MIN_PALLETS_PER_ROUTE)

\* ------------------------------------------------------- the plan sheet

\* parts.join(separator)
RECURSIVE Join(_, _)
Join(parts, separator) ==
  IF parts = <<>> THEN ""
  ELSE IF Len(parts) = 1 THEN parts[1]
  ELSE parts[1] \o separator \o Join(Tail(parts), separator)

\* the 'Stop Sequence' cell: `${store} (${catAbbr})` for each store, joined by ' / ',
\* catAbbr the store's categories cut to three letters in capitals
formatStopSequence(stops) ==
  Join([k \in 1..Len(UniqueStores(stops)) |->
         UniqueStores(stops)[k] \o " ("
         \o Join([c \in 1..Len(Uniq([i \in 1..Len(SelectSeq(stops,
                                        LAMBDA st : st.store = UniqueStores(stops)[k])) |->
                     SelectSeq(stops, LAMBDA st : st.store = UniqueStores(stops)[k])[i]
                       .category])) |->
                  ToUpperCase(SubSeq(
                    Uniq([i \in 1..Len(SelectSeq(stops,
                                        LAMBDA st : st.store = UniqueStores(stops)[k])) |->
                      SelectSeq(stops, LAMBDA st : st.store = UniqueStores(stops)[k])[i]
                        .category])[c], 1, 3))], ",")
         \o ")"], " / ")

\* the row writeRouteToSheet appends, from the sequenced stops and their metrics
RowOf(route, context, optimizedStops, metrics) ==
  [carrier |-> route.carrier.name, routeId |-> route.routeId, cluster |-> route.cluster,
   stops |-> optimizedStops, totalDistance |-> metrics.totalDistance,
   trailerSize |-> getRequiredTrailerSize(route, context.restrictions),
   totalPallets |-> route.totalPallets, hosStatus |-> metrics.hosStatus,
   mileageStatus |-> IF metrics.totalDistance > context.MAX_ROUTE_MILEAGE
                     THEN "OVER" ELSE "OK",
   notes |-> route.notes]

SequencedMetrics(optimizedStops, context) ==
  calculateRouteMetricsWithHOS(optimizedStops, context.warehouse, context.distanceMatrix,
                               context.detailedDurations)

SequencedRow(route, context, optimizedStops) ==
  RowOf(route, context, optimizedStops, SequencedMetrics(optimizedStops, context))

SheetRow(route, context) ==
  SequencedRow(route, context,
    advancedOptimizeStopOrder(route.stops, context.warehouse, context.distanceMatrix))

\* routes.forEach(route => writeRouteToSheet(route, ...)): empty routes are skipped
RECURSIVE SheetRows(_, _)
SheetRows(rs, context) ==
  IF rs = <<>> THEN <<>>
  ELSE IF Len(Head(rs).stops) = 0 THEN SheetRows(Tail(rs), context)
  ELSE <<SheetRow(Head(rs), context)>> \o SheetRows(Tail(rs), context)

\* ---------------------------------------------------- Pull-Forward Filler

\* Math.max(15, Math.ceil(MIN_PALLETS_PER_ROUTE * RELAX_MIN_FACTOR))
PullForwardMinimum(context) ==
  Max2(15, (context.MIN_PALLETS_PER_ROUTE * context.RELAX_MIN_FACTOR_NUM
              + context.RELAX_MIN_FACTOR_DEN - 1) \div context.RELAX_MIN_FACTOR_DEN)

\* the while loop of one spare unit; st = [un, stops, total, state], j the scan index.
\* The route handed to the scorer already holds the shipment and counts its pallets.
RECURSIVE PullForwardScan(_, _, _, _, _)
PullForwardScan(st, j, carrier, time, context) ==
  IF ~(j <= Len(st.un) /\ st.total < context.MIN_PALLETS_PER_ROUTE) THEN st
  ELSE LET shipment == st.un[j]
           tempRoute == NewRoute(carrier, time, Append(st.stops, shipment),
                                 st.total + shipment.pallets, "")
       IN IF checkAndScoreInsertion(shipment, tempRoute, context).ok
          THEN PullForwardScan(
                 [un |-> RemoveAt(st.un, j), stops |-> Append(st.stops, shipment),
                  total |-> st.total + shipment.pallets,
                  state |-> [st.state EXCEPT ![shipment.id].insertionFailures = 0]],
                 j, carrier, time, context)
          ELSE PullForwardScan(
                 [st EXCEPT !.state[shipment.id].insertionFailures = @ + 1],
                 j + 1, carrier, time, context)

\* (variant: the shipments taken for a unit that falls short are not pushed back)
PullForwardOutcomeMut(st, carrier, time, created, context) ==
  IF st.total >= PullForwardMinimum(context)
  THEN [created |-> TRUE,
        route |-> [NewRoute(carrier, time, st.stops, st.total, st.stops[1].cluster)
                     EXCEPT !.routeId = carrier.name \o "_PF_" \o ToString(created + 1),
                            !.notes = "Pull Forward Request"],
        un |-> st.un, state |-> st.state]
  ELSE [created |-> FALSE, route |-> NewRoute(carrier, time, <<>>, 0, ""),
        un |-> st.un, state |-> st.state]

\* lines 1802-1817 on the outcome st of the scan: [created, route, un, state]
PullForwardOutcome(st, carrier, time, created, context) ==
  IF st.total >= PullForwardMinimum(context)
  THEN [created |-> TRUE,
        route |-> [NewRoute(carrier, time, st.stops, st.total, st.stops[1].cluster)
                     EXCEPT !.routeId = carrier.name \o "_PF_" \o ToString(created + 1),
                            !.notes = "Pull Forward Request"],
        un |-> st.un, state |-> st.state]
  ELSE [created |-> FALSE, route |-> NewRoute(carrier, time, <<>>, 0, ""),
        un |-> st.un \o st.stops, state |-> st.state]

\* one iteration of the loop over the spare units of a slot
PullForwardUnit(un, state, carrier, time, created, context) ==
  PullForwardOutcome(
    PullForwardScan([un |-> un, stops |-> <<>>, total |-> 0, state |-> state],
                    1, carrier, time, context),
    carrier, time, created, context)

\* the next spare unit after unit i of slot pair k: [k, i, n], k past the end when
\* no slot with spare units is left; n is capacity - used on entering the slot
SpareUnits(carriers, usedCount, p) ==
  carriers[p[1]].timeSlots[p[2]].capacity - usedCount[p[1]][p[2]]

NextUnit(carriers, usedCount, k, i, n) ==
  IF i + 1 < n THEN [k |-> k, i |-> i + 1, n |-> n]
  ELSE IF \A q \in (k + 1)..Len(SlotPairs(carriers)) :
            SpareUnits(carriers, usedCount, SlotPairs(carriers)[q]) <= 0
    THEN [k |-> Len(SlotPairs(carriers)) + 1, i |-> 0, n |-> 0]
  ELSE CHOOSE u \in {[k |-> q, i |-> 0,
                      n |-> SpareUnits(carriers, usedCount, SlotPairs(carriers)[q])] :
                     q \in (k + 1)..Len(SlotPairs(carriers))} :
         /\ u.n > 0
         /\ \A b \in (k + 1)..(u.k - 1) :
              SpareUnits(carriers, usedCount, SlotPairs(carriers)[b]) <= 0

\* ---------------------------------------------------- Overspill Planner

ManualReviewCarrier(name) ==
  [name |-> name, costPerMile |-> 0, costPerRoute |-> 0,
   pallets36 |-> 0, pallets48 |-> 0, pallets53 |-> 0]

OverspillCarrier ==
  [name |-> "Overspill", costPerMile |-> 0, costPerRoute |-> 0,
   pallets36 |-> 18, pallets48 |-> 22, pallets53 |-> 26]

\* the first overspill route that takes the shipment, 0 when none does
FirstFit(rs, shipment, context) ==
  FirstTrue([r \in 1..Len(rs) |-> checkAndScoreInsertion(shipment, rs[r], context).ok])

\* first fit over the overspill routes opened so far, from shipment k on
RECURSIVE OverspillFit(_, _, _, _)
OverspillPut(rs, ships, k, r, context) ==
  IF r = 0
  THEN OverspillFit(
         Append(rs, NewRoute(OverspillCarrier, "23:00", <<ships[k]>>,
                             ships[k].pallets, "Overspill")),
         ships, k + 1, context)
  ELSE OverspillFit(
         [rs EXCEPT ![r] = [@ EXCEPT !.stops = Append(@, ships[k]),
                                     !.totalPallets = @ + ships[k].pallets]],
         ships, k + 1, context)

OverspillFit(rs, ships, k, context) ==
  IF k > Len(ships) THEN rs
  ELSE OverspillPut(rs, ships, k, FirstFit(rs, ships[k], context), context)

\* a manual-review group as the route planRemainingShipments writes
ManualReviewGroup(name, id, stops, notes) ==
  [NewRoute(ManualReviewCarrier(name), "", stops, PalletSum(stops), "Manual Review")
     EXCEPT !.routeId = id, !.notes = notes]

\* route.routeId = `Overspill_${i + 1}`
Numbered(overspillRoutes) ==
  [i \in 1..Len(overspillRoutes) |->
    [overspillRoutes[i] EXCEPT !.routeId = "Overspill_" \o ToString(i)]]

\* the rows planRemainingShipments appends
planRemainingShipments(shipments, state, context) ==
  SheetRows(
    <<ManualReviewGroup("Unplannable (Time)", "Time_1",
        SelectSeq(shipments, LAMBDA s : state[s.id].failureReason = "Time Constraint"),
        "Failed due to delivery window constraints."),
      ManualReviewGroup("Unplannable (Other)", "Other_1",
        SelectSeq(shipments, LAMBDA s : state[s.id].failureReason # ""
                                        /\ state[s.id].failureReason # "Time Constraint"),
        "Failed planning after max attempts or no viable carrier.")>>
    \o Numbered(OverspillFit(<<>>,
         SortByPalletsDesc(SelectSeq(shipments, LAMBDA s : state[s.id].failureReason = "")),
         1, context)),
    context)

\* ------------------------------------------------------- planning inputs

\* the largest number of shipments in one planning run
MaxShipments == 4

WAREHOUSE_LOCATION == "US0007"

\* SettingsService defaults and the fixed entries of the context in generatePlan
MAX_ROUTE_MILEAGE == 425
MAX_DISTANCE_BETWEEN_STOPS == 60
ABSOLUTE_MAX_DISTANCE_BETWEEN_STOPS == 75
SMALL_AMBIENT_THRESHOLD == 6
MIN_PALLETS_PER_ROUTE == 20
MAX_PLANNING_ATTEMPTS == 5
RELAX_MIN_ATTEMPTS == 4
CLUSTER_FAILURE_THRESHOLD == 3
MAX_REBALANCE_ITERATIONS == 15

\* "HH:MM" of a minute of the day
Pad2(n) == Char(Digits, (n \div 10) + 1) \o Char(Digits, (n % 10) + 1)

FormatClock(m) == Pad2(m \div 60) \o ":" \o Pad2(m % 60)

\* "HAM" / "HPM" of a whole hour
FormatMeridiem(m) ==
  LET h == m \div 60
      h12 == IF h % 12 = 0 THEN 12 ELSE h % 12
  IN (IF h12 >= 10 THEN Pad2(h12) ELSE Char(Digits, h12 + 1))
     \o (IF h < 12 THEN "AM" ELSE "PM")

\* a slot header of the Carriers_2 sheet, written in either supported form
SlotLabel(slot) == IF slot.meridiem THEN FormatMeridiem(slot.minutes)
                   ELSE FormatClock(slot.minutes)

\* a Delivery Window cell "HH:MM-HH:MM"
FormatWindow(w) == FormatClock(w[1]) \o "-" \o FormatClock(w[2])

\* a shipment as getShipments aggregates the demand: one per store and category,
\* the category Ambient, Chiller or Freezer; with the cluster of the store in the
\* address data ("" for none)
Row(store, category, cluster) == [store |-> store, category |-> category, cluster |-> cluster]

Shapes ==
  << <<Row("A", "Ambient", ""), Row("A", "Chiller", ""), Row("C", "Ambient", ""),
       Row("C", "Chiller", ""), Row("B", "Ambient", "")>>,
     <<Row("A", "Ambient", "North"), Row("B", "Ambient", "South"),
       Row("C", "Ambient", "South"), Row("C", "Chiller", "South"),
       Row("B", "Chiller", "South")>>,
     <<Row("A", "Chiller", ""), Row("A", "Ambient", ""), Row("B", "Freezer", ""),
       Row("C", "Freezer", ""), Row("B", "Ambient", "")>>,
     <<Row("B", "Ambient", ""), Row("C", "Ambient", ""), Row("A", "Ambient", ""),
       Row("A", "Chiller", ""), Row("C", "Chiller", "")>> >>

PalletVectors ==
  << <<13, 13, 8, 8, 5>>, <<20, 12, 10, 10, 4>>, <<6, 6, 6, 6, 6>>,
     <<10, 6, 12, 4, 4>>, <<20, 12, 11, 9, 4>> >>

\* getShipments followed by the cluster assignment of generatePlan:
\* s.cluster = (addressData[s.store] && addressData[s.store].cluster) || 'Others'
ShipmentsOf(shape, pallets, n) ==
  [i \in 1..n |->
    [id |-> i, store |-> shape[i].store, category |-> shape[i].category,
     pallets |-> pallets[i], productTypeId |-> "P1",
     cluster |-> IF shape[i].cluster = "" THEN "Others" ELSE shape[i].cluster]]

\* ALLOW_ALL_ALL is read only past the Freezer rule and decides nothing without a
\* Chiller shipment, so both values are explored when the shipments hold one
MixedZoneFlags(shipments) ==
  IF \E i \in 1..Len(shipments) : shipments[i].category = "Chiller" THEN BOOLEAN
  ELSE {TRUE}

\* MAX_STOPS_GENERAL: the default 5, and 2 when the shipments have more stores than that
StopLimits(shipments) ==
  IF Len(UniqueStores(shipments)) > 2 THEN {2, 5} ELSE {5}

Leg(distance, duration) == [distance |-> distance, duration |-> duration]

\* both directions of a pair of places
BothWays(a, b, leg) == [p \in {<<a, b>>, <<b, a>>} |-> leg]

DistanceMatrices ==
  << BothWays(WAREHOUSE_LOCATION, "A", Leg(50, 60))
       @@ BothWays(WAREHOUSE_LOCATION, "B", Leg(60, 70))
       @@ BothWays(WAREHOUSE_LOCATION, "C", Leg(100, 110))
       @@ BothWays("A", "B", Leg(30, 40)) @@ BothWays("A", "C", Leg(80, 90))
       @@ BothWays("B", "C", Leg(50, 60)),
     BothWays(WAREHOUSE_LOCATION, "A", Leg(90, 120))
       @@ BothWays(WAREHOUSE_LOCATION, "B", Leg(40, 50))
       @@ BothWays(WAREHOUSE_LOCATION, "C", Leg(100, 130))
       @@ (<<"A", "C">> :> Leg(250, 500))
       @@ BothWays("A", "B", Leg(30, 40)) @@ BothWays("B", "C", Leg(30, 40)),
     \* a sheet with pairs the lookup never filled: no row between the depot and
     \* A, none from B to C
     (<<WAREHOUSE_LOCATION, "B">> :> Leg(175, 200))
       @@ (<<"B", WAREHOUSE_LOCATION>> :> Leg(175, 265))
       @@ (<<WAREHOUSE_LOCATION, "C">> :> Leg(250, 300))
       @@ (<<"C", WAREHOUSE_LOCATION>> :> Leg(250, 166))
       @@ (<<"C", "B">> :> Leg(75, 90))
       @@ BothWays("A", "B", Leg(30, 40)) >>

Slot(minutes, meridiem, capacity) ==
  [minutes |-> minutes, meridiem |-> meridiem, capacity |-> capacity]

\* getCarriers: a slot is its label, its capacity and a used-count of 0
Carrier(name, costPerMile, costPerRoute, p36, p48, p53, slots) ==
  [name |-> name, costPerMile |-> costPerMile, costPerRoute |-> costPerRoute,
   pallets36 |-> p36, pallets48 |-> p48, pallets53 |-> p53,
   timeSlots |-> [s \in 1..Len(slots) |->
                   [time |-> SlotLabel(slots[s]), capacity |-> slots[s].capacity]],
   slotMinutes |-> [s \in 1..Len(slots) |-> slots[s].minutes]]

CarrierSets ==
  << <<Carrier("K1", 2, 100, 13, 26, 26, <<Slot(360, FALSE, 2)>>)>>,
     <<Carrier("K1", 1, 50, 13, 13, 13, <<Slot(360, FALSE, 1)>>),
       Carrier("K2", 2, 100, 13, 26, 26, <<Slot(840, TRUE, 1)>>)>>,
     <<Carrier("K3", 2, 100, 13, 26, 52, <<Slot(600, FALSE, 2), Slot(1380, FALSE, 1)>>)>>,
     <<Carrier("K4", 2, 100, 26, 26, 26, <<Slot(1380, FALSE, 1)>>),
       Carrier("K1", 1, 50, 26, 26, 26, <<Slot(600, FALSE, 1)>>)>> >>

\* the rows of the Restrictions sheet, the window as a pair of minutes (<<>> for none)
RestrictionSets ==
  << [st \in {} |-> [window |-> <<>>, equipmentNight |-> "", equipmentDay |-> ""]],
     [st \in {"A", "B", "C"} |->
        CASE st = "A" -> [window |-> <<540, 660>>, equipmentNight |-> "", equipmentDay |-> ""]
          [] st = "B" -> [window |-> <<>>, equipmentNight |-> "36", equipmentDay |-> ""]
          [] st = "C" -> [window |-> <<1320, 120>>, equipmentNight |-> "",
                          equipmentDay |-> "48"]] >>

\* getRestrictions
RestrictionsOf(rows) ==
  [st \in DOMAIN rows |->
    [equipmentNight |-> rows[st].equipmentNight, equipmentDay |-> rows[st].equipmentDay,
     deliveryWindow |-> IF rows[st].window = <<>> THEN "N/A"
                        ELSE FormatWindow(rows[st].window)]]

\* the context generatePlan hands to the planner
ContextOf(rows, dm, allowAllAll, maxStops) ==
  [restrictions |-> RestrictionsOf(rows), distanceMatrix |-> dm,
   detailedDurations |-> [p \in {} |-> [loading |-> 0, unloading |-> 0]],
   warehouse |-> WAREHOUSE_LOCATION,
   MAX_STOPS_GENERAL |-> maxStops, MAX_ROUTE_MILEAGE |-> MAX_ROUTE_MILEAGE,
   MAX_DISTANCE_BETWEEN_STOPS |-> MAX_DISTANCE_BETWEEN_STOPS,
   ABSOLUTE_MAX_DISTANCE_BETWEEN_STOPS |-> ABSOLUTE_MAX_DISTANCE_BETWEEN_STOPS,
   ALLOW_ALL_ALL |-> allowAllAll, SMALL_AMBIENT_THRESHOLD |-> SMALL_AMBIENT_THRESHOLD,
   OVERPLAN_NUM |-> 1, OVERPLAN_DEN |-> 1,
   MIN_PALLETS_PER_ROUTE |-> MIN_PALLETS_PER_ROUTE,
   MAX_PLANNING_ATTEMPTS |-> MAX_PLANNING_ATTEMPTS,
   RELAX_MIN_ATTEMPTS |-> RELAX_MIN_ATTEMPTS,
   RELAX_MIN_FACTOR_NUM |-> 4, RELAX_MIN_FACTOR_DEN |-> 5,
   CLUSTER_FAILURE_THRESHOLD |-> CLUSTER_FAILURE_THRESHOLD]

\* ------------------------------------------------------- the planning run

VARIABLES
  pc,           \* the position of the run: "loop", "seed", "grow", "close",
                \* "rebalance", "swap", "pullforward", "remaining", "done";
                \* "aborted" when replanRoutes has ended with an error
  input,        \* the sheets as read: [shipments, carriers, windows, context]
  unassigned,   \* unassignedShipments
  routes,       \* the routes array of runPlanningLoop
  current,      \* bestRouteOption while a route grows: [found, c, s, route]
  used,         \* timeSlot.used, by carrier and slot index
  shipState,    \* attempts, insertionFailures and failureReason, by shipment id
  iteration,    \* the route counter behind the route ids
  rebalance,    \* improved and iterations of rebalanceRoutes
  pullForward,  \* the spare unit in turn [k, i, n] and routesCreated
  sheet,        \* the rows appended to the plan sheet
  run,          \* the run in hand: a "plan", the same plan "again" or a "replan",
                \* with the sheet and the routes array the run before it has left
  probe         \* the Stop Sequencer and the Duty-Cycle Simulator taken alone

vars == <<pc, input, unassigned, routes, current, used, shipState, iteration,
          rebalance, pullForward, sheet, run, probe>>

NoOption == [found |-> FALSE]

\* used: 0 on every slot, as getCarriers builds the carriers
UnusedSlots(carriers) ==
  [c \in 1..Len(carriers) |-> [s \in 1..Len(carriers[c].timeSlots) |-> 0]]

\* the used-counts a run starts with: its carriers come from a call of getCarriers
\* of its own, whatever counts the run before has left on its copy of the carriers
\* (variant: the counts the run before has left are carried over)
SlotUsageAtStartMut(carriers, usedBefore) == usedBefore

SlotUsageAtStart(carriers, usedBefore) == UnusedSlots(carriers)

\* attempts, insertionFailures and failureReason of shipments as read
FreshShipState(shipments) ==
  [i \in 1..Len(shipments) |->
    [attempts |-> 0, insertionFailures |-> 0, failureReason |-> ""]]

FirstRun == [kind |-> "plan", sheet |-> <<>>, routes |-> <<>>]

\* one leg of a simulated day, as it was met: the on-duty time and the breaks
\* before it, its duration, and whether the matrix had its forward edge
NoLeg == [known |-> FALSE, onDutyBefore |-> 0, breaksBefore |-> 0, duration |-> 0]

LegMet(m, currentLocation, to, dm) ==
  [known |-> HasLeg(dm, currentLocation, to),
   onDutyBefore |-> m.onDutyTime, breaksBefore |-> m.breaksTaken,
   duration |-> IF HasLeg(dm, currentLocation, to)
                THEN dm[<<currentLocation, to>>].duration ELSE 0]

\* [order, again]: the sequencer's order of the stops and its order of that order;
\* [m, at, left, leg]: the simulator's sums, its location, the stores ahead and
\* the leg last met
NoProbe ==
  [order |-> <<>>, again |-> <<>>, m |-> StartOfDay(0), at |-> "", left |-> <<>>,
   leg |-> NoLeg]

\* the state after construction, for the shipments, carriers and context given
InitWith(shipments, carriers, rows, context) ==
  /\ input = [shipments |-> shipments, carriers |-> carriers,
              windows |-> [st \in DOMAIN rows |-> rows[st].window],
              context |-> context]
  /\ unassigned = shipments
  /\ routes = <<>>
  /\ current = NoOption
  /\ used = SlotUsageAtStart(carriers, UnusedSlots(carriers))
  /\ shipState = FreshShipState(shipments)
  /\ iteration = 1
  /\ rebalance = [improved |-> FALSE, iterations |-> 0]
  /\ pullForward = [k |-> 0, i |-> 0, n |-> 0, routesCreated |-> <<>>]
  /\ sheet = <<>>
  /\ run = FirstRun
  /\ probe = NoProbe
  /\ pc = "loop"

\* the sheets a planning run is started on, as indices <<shape, pallet vector,
\* distance matrix, carrier set, restriction set>>: every combination of the first
\* three shapes, pallet vectors and carrier sets on the two matrices with a row for
\* every pair of places, and the fourth of each on the matrix with rows missing
PlanCases ==
  ((1..3) \X (1..3) \X (1..2) \X (1..3) \X (1..Len(RestrictionSets)))
  \cup ({4} \X {4} \X {3} \X {4} \X (1..Len(RestrictionSets)))
  \cup ({2} \X {5} \X {1} \X {3} \X (1..Len(RestrictionSets)))

\* a planning run: generatePlan up to its call of runPlanningLoop
PlanInit ==
  \E n \in 1..MaxShipments, case \in PlanCases :
    \E shipments \in {ShipmentsOf(Shapes[case[1]], PalletVectors[case[2]], n)} :
      \E allowAllAll \in MixedZoneFlags(shipments), maxStops \in StopLimits(shipments) :
        InitWith(shipments, CarrierSets[case[4]], RestrictionSets[case[5]],
                 ContextOf(RestrictionSets[case[5]], DistanceMatrices[case[3]],
                           allowAllAll, maxStops))

\* The Insertion Scorer taken alone, for arguments drawn from a stock of shipments
\* that holds every category the scorer tells apart (Produce included, which
\* getShipments never yields): two stores, pallet counts on both sides of
\* SMALL_AMBIENT_THRESHOLD.
MaxScoredStops == 2

StockRows ==
  << [store |-> "A", category |-> "Ambient", pallets |-> 3],
     [store |-> "A", category |-> "Ambient", pallets |-> 4],
     [store |-> "A", category |-> "Produce", pallets |-> 3],
     [store |-> "A", category |-> "Chiller", pallets |-> 3],
     [store |-> "A", category |-> "Freezer", pallets |-> 3],
     [store |-> "B", category |-> "Ambient", pallets |-> 3],
     [store |-> "B", category |-> "Ambient", pallets |-> 4],
     [store |-> "B", category |-> "Produce", pallets |-> 3],
     [store |-> "B", category |-> "Chiller", pallets |-> 3],
     [store |-> "B", category |-> "Freezer", pallets |-> 3] >>

Stock ==
  [i \in 1..Len(StockRows) |->
    [id |-> i, store |-> StockRows[i].store, category |-> StockRows[i].category,
     pallets |-> StockRows[i].pallets, productTypeId |-> "P1", cluster |-> "Others"]]

\* the members of a set of stock indices, in rising order
RECURSIVE StockOf(_)
StockOf(indices) ==
  IF indices = {} THEN <<>>
  ELSE <<Stock[CHOOSE i \in indices : \A j \in indices : i <= j]>>
       \o StockOf(indices \ {CHOOSE i \in indices : \A j \in indices : i <= j})

\* the carrier slots a scored route stands on: <<carrier set, carrier, slot>>
ScoredSlots == { <<2, 2, 1>>, <<3, 1, 1>>, <<3, 1, 2>> }

\* the distance sheets the scorer is given: every pair known, and pairs missing
ScoredMatrices == {1, 3}

\* a route with the given stops on a carrier slot, and one shipment to score on it
ScoreInit ==
  \E k \in 1..Len(Stock), on \in SUBSET (1..Len(Stock)),
     p \in ScoredSlots, allowAllAll \in BOOLEAN, dm \in ScoredMatrices :
    /\ k \notin on
    /\ Cardinality(on) <= MaxScoredStops
    /\ input = [shipments |-> Stock, carriers |-> CarrierSets[p[1]],
                windows |-> [st \in DOMAIN RestrictionSets[2] |->
                              RestrictionSets[2][st].window],
                context |-> ContextOf(RestrictionSets[2], DistanceMatrices[dm],
                                      allowAllAll, 5)]
    /\ unassigned = <<Stock[k]>>
    /\ routes = <<>>
    /\ current = [found |-> TRUE, c |-> p[2], s |-> p[3],
                  route |-> NewRoute(CarrierRef(CarrierSets[p[1]][p[2]]),
                                     CarrierSets[p[1]][p[2]].timeSlots[p[3]].time,
                                     StockOf(on), PalletSum(StockOf(on)), "Others")]
    /\ used = [c \in 1..Len(CarrierSets[p[1]]) |->
                [s \in 1..Len(CarrierSets[p[1]][c].timeSlots) |-> 0]]
    /\ shipState = [i \in 1..Len(Stock) |->
                     [attempts |-> 0, insertionFailures |-> 0, failureReason |-> ""]]
    /\ iteration = 1
    /\ rebalance = [improved |-> FALSE, iterations |-> 0]
    /\ pullForward = [k |-> 0, i |-> 0, n |-> 0, routesCreated |-> <<>>]
    /\ sheet = <<>>
    /\ run = FirstRun
    /\ probe = NoProbe
    /\ pc = "score"

\* The Stop Sequencer and the Duty-Cycle Simulator taken alone, on up to
\* MaxProbeStops of the shipments of a sheet, in any order.
MaxProbeStops == 3

\* getDetailedDurations: no entry, or the minutes per full load of a Durations row
DurationTables ==
  << [p \in {} |-> [loading |-> 0, unloading |-> 0]],
     (<<"B", "P1">> :> [loading |-> 13, unloading |-> 39]) >>

\* the sequences of up to k different indices out of 1..n
Picks(n, k) ==
  {s \in UNION {[1..m -> 1..n] : m \in 1..k} :
     \A i, j \in DOMAIN s : i # j => s[i] # s[j]}

ProbeInit ==
  \E sh \in 1..Len(Shapes), dm \in 1..Len(DistanceMatrices),
     dd \in 1..Len(DurationTables), pick \in Picks(MaxShipments, MaxProbeStops) :
    /\ input = [shipments |-> ShipmentsOf(Shapes[sh], PalletVectors[sh], MaxShipments),
                carriers |-> CarrierSets[1],
                windows |-> [st \in {} |-> <<>>],
                context |-> [ContextOf(RestrictionSets[1], DistanceMatrices[dm], TRUE, 5)
                               EXCEPT !.detailedDurations = DurationTables[dd]]]
    /\ unassigned = [i \in DOMAIN pick |->
                       ShipmentsOf(Shapes[sh], PalletVectors[sh], MaxShipments)[pick[i]]]
    /\ routes = <<>>
    /\ current = NoOption
    /\ used = UnusedSlots(CarrierSets[1])
    /\ shipState = FreshShipState(ShipmentsOf(Shapes[sh], PalletVectors[sh], MaxShipments))
    /\ iteration = 1
    /\ rebalance = [improved |-> FALSE, iterations |-> 0]
    /\ pullForward = [k |-> 0, i |-> 0, n |-> 0, routesCreated |-> <<>>]
    /\ sheet = <<>>
    /\ run = FirstRun
    /\ probe = NoProbe
    /\ pc = "sequence"

Init == PlanInit \/ ScoreInit \/ ProbeInit

\* checkAndScoreInsertion on the drawn arguments; as its callers do, the shipment is
\* pushed on the route when the score is not null
ScoreInsertion ==
  /\ pc = "score"
  /\ \E result \in {checkAndScoreInsertion(unassigned[1], current.route, input.context)} :
       IF result.ok
       THEN /\ current' = [current EXCEPT
                 !.route.stops = Append(@, unassigned[1]),
                 !.route.totalPallets = @ + unassigned[1].pallets]
            /\ unassigned' = <<>>
            /\ pc' = "accepted"
       ELSE /\ pc' = "rejected"
            /\ UNCHANGED <<current, unassigned>>
  /\ UNCHANGED <<input, routes, used, shipState, iteration, rebalance, pullForward, sheet>>
  /\ UNCHANGED <<run, probe>>

\* the head of the while loop: the sort, then the insertion pass over the routes
InsertIntoRoutes ==
  /\ pc = "loop"
  /\ \E sorted \in {SortByPalletsDesc(unassigned)} :
       \E st \in {IF routes = <<>> THEN [routes |-> routes, inserted |-> {}]
                  ELSE PreSeedPass([routes |-> routes, inserted |-> {}], sorted,
                                   Len(sorted), shipState, input.context)} :
         /\ routes' = st.routes
         /\ unassigned' = DropIndices(sorted, st.inserted)
  /\ pc' = "seed"
  /\ UNCHANGED <<input, current, used, shipState, iteration, rebalance, pullForward, sheet>>
  /\ UNCHANGED <<run, probe>>

\* a seed for which no carrier and slot is viable
SeedFailed ==
  /\ pc = "seed"
  /\ \E seedIndex \in {SeedIndex(unassigned, shipState, input.context)} \ {0} :
       \E seedShipment \in {unassigned[seedIndex]} :
         /\ ~findBestInitialCarrier(seedShipment, input.carriers, used, input.context).found
         /\ shipState' = [shipState EXCEPT
              ![seedShipment.id].attempts = @ + 1,
              ![seedShipment.id].failureReason =
                IF HasWindow(seedShipment.store, input.context.restrictions)
                THEN "Time Constraint" ELSE "No Viable Carrier"]
         /\ unassigned' = Append(RemoveAt(unassigned, seedIndex), seedShipment)
  /\ pc' = "loop"
  /\ UNCHANGED <<input, routes, current, used, iteration, rebalance, pullForward, sheet>>
  /\ UNCHANGED <<run, probe>>

\* a seed placed on the cheapest viable carrier and slot
SeedPlaced ==
  /\ pc = "seed"
  /\ \E seedIndex \in {SeedIndex(unassigned, shipState, input.context)} \ {0} :
       \E seedShipment \in {unassigned[seedIndex]} :
         \E bestRouteOption \in {findBestInitialCarrier(seedShipment, input.carriers, used,
                                                        input.context)} :
           /\ bestRouteOption.found
           /\ shipState' = [shipState EXCEPT ![seedShipment.id].attempts = @ + 1]
           /\ current' = [bestRouteOption EXCEPT
                !.route.seedAttempts = shipState[seedShipment.id].attempts + 1]
           /\ unassigned' = RemoveAt(unassigned, seedIndex)
  /\ pc' = "grow"
  /\ UNCHANGED <<input, routes, used, iteration, rebalance, pullForward, sheet>>
  /\ UNCHANGED <<run, probe>>

\* insertionFailures + 1 for the shipments in ids
CountFailures(state, ids) ==
  [id \in DOMAIN state |->
    IF id \in ids THEN [state[id] EXCEPT !.insertionFailures = @ + 1] ELSE state[id]]

\* one turn of the growth loop: the scan, then the best candidate joins the route
GrowRoute ==
  /\ pc = "grow"
  /\ \E scan \in {GrowthScan(unassigned, current.route, shipState, input.context)} :
       IF scan.best = 0
       THEN /\ shipState' = CountFailures(shipState, scan.failed)
            /\ pc' = "close"
            /\ UNCHANGED <<unassigned, current>>
       ELSE \E addedShipment \in {unassigned[scan.best]} :
              /\ shipState' = [CountFailures(shipState, scan.failed) EXCEPT
                                 ![addedShipment.id].insertionFailures = 0]
              /\ unassigned' = RemoveAt(unassigned, scan.best)
              /\ current' = [current EXCEPT
                   !.route.stops = Append(@, addedShipment),
                   !.route.totalPallets = @ + addedShipment.pallets,
                   !.route.cluster =
                     IF @ = "Others" /\ addedShipment.cluster # "Others"
                     THEN addedShipment.cluster ELSE @]
              /\ pc' = "grow"
  /\ UNCHANGED <<input, routes, used, iteration, rebalance, pullForward, sheet>>
  /\ UNCHANGED <<run, probe>>

\* the grown route is under the minimum: its stops go back to the pool
DisbandRoute ==
  /\ pc = "close"
  /\ current.route.totalPallets < RelaxedMinimum(current.route, input.context)
  /\ shipState' = CountFailures(shipState,
                    {current.route.stops[k].id : k \in 1..Len(current.route.stops)})
  /\ unassigned' = unassigned \o current.route.stops
  /\ current' = NoOption
  /\ pc' = "loop"
  /\ UNCHANGED <<input, routes, used, iteration, rebalance, pullForward, sheet>>
  /\ UNCHANGED <<run, probe>>

\* the grown route is kept: the slot is charged and the route gets its id
CommitRoute ==
  /\ pc = "close"
  /\ ~(current.route.totalPallets < RelaxedMinimum(current.route, input.context))
  /\ used' = [used EXCEPT ![current.c][current.s] = @ + 1]
  /\ routes' = Append(routes,
       [current.route EXCEPT !.routeId = current.route.carrier.name \o "_"
                                            \o ToString(iteration)])
  /\ iteration' = iteration + 1
  /\ current' = NoOption
  /\ pc' = "loop"
  /\ UNCHANGED <<input, unassigned, shipState, rebalance, pullForward, sheet>>
  /\ UNCHANGED <<run, probe>>

\* the first spare unit the pull-forward pass visits, with no route created yet
FirstUnit == NextUnit(input.carriers, used, 0, 0, 0) @@ [routesCreated |-> <<>>]

\* no shipment is left to seed: on to the rebalancer, or past it without routes
FinishLoop ==
  /\ pc = "seed"
  /\ SeedIndex(unassigned, shipState, input.context) = 0
  /\ IF routes # <<>>
     THEN /\ rebalance' = [improved |-> TRUE, iterations |-> 0]
          /\ pc' = "rebalance"
          /\ UNCHANGED pullForward
     ELSE /\ pullForward' = FirstUnit
          /\ pc' = "pullforward"
          /\ UNCHANGED rebalance
  /\ UNCHANGED <<input, unassigned, routes, current, used, shipState, iteration, sheet>>
  /\ UNCHANGED <<run, probe>>

\* (variant: the rounds go on to the cap whether or not one improved)
RebalanceContinuesMut(rb) == rb.iterations < MAX_REBALANCE_ITERATIONS

\* while (improved && iterations < MAX_REBALANCE_ITERATIONS)
RebalanceContinues(rb) == rb.improved /\ rb.iterations < MAX_REBALANCE_ITERATIONS

\* first pass of a rebalancing round
Consolidate ==
  /\ pc = "rebalance"
  /\ RebalanceContinues(rebalance)
  /\ \E st \in {ConsolidationPass([routes |-> routes, improved |-> FALSE], Len(routes),
                                  input.context)} :
       /\ routes' = st.routes
       /\ rebalance' = [improved |-> st.improved, iterations |-> rebalance.iterations + 1]
  /\ pc' = "swap"
  /\ UNCHANGED <<input, unassigned, current, used, shipState, iteration, pullForward, sheet>>
  /\ UNCHANGED <<run, probe>>

\* second pass of a rebalancing round
Swap ==
  /\ pc = "swap"
  /\ \E st \in {SwapPass([routes |-> routes, improved |-> rebalance.improved], 1, 2, 1, 1,
                         input.context)} :
       /\ routes' = st.routes
       /\ rebalance' = [rebalance EXCEPT !.improved = st.improved]
  /\ pc' = "rebalance"
  /\ UNCHANGED <<input, unassigned, current, used, shipState, iteration, pullForward, sheet>>
  /\ UNCHANGED <<run, probe>>

\* the rebalancer is through: every route is written to the plan sheet
WriteRoutes ==
  /\ pc = "rebalance"
  /\ ~RebalanceContinues(rebalance)
  /\ sheet' = sheet \o SheetRows(routes, input.context)
  /\ pullForward' = FirstUnit
  /\ pc' = "pullforward"
  /\ UNCHANGED <<input, unassigned, routes, current, used, shipState, iteration, rebalance>>
  /\ UNCHANGED <<run, probe>>

\* one spare unit of a carrier slot is offered to the shipments left over
PullForward ==
  /\ pc = "pullforward"
  /\ pullForward.k <= Len(SlotPairs(input.carriers))
  /\ \E p \in {SlotPairs(input.carriers)[pullForward.k]} :
       \E unit \in {PullForwardUnit(unassigned, shipState, CarrierRef(input.carriers[p[1]]),
                                    input.carriers[p[1]].timeSlots[p[2]].time,
                                    Len(pullForward.routesCreated), input.context)} :
         /\ unassigned' = unit.un
         /\ shipState' = unit.state
         /\ used' = [used EXCEPT ![p[1]][p[2]] = @ + (IF unit.created THEN 1 ELSE 0)]
         /\ pullForward' =
              NextUnit(input.carriers, used, pullForward.k, pullForward.i, pullForward.n)
              @@ [routesCreated |-> IF unit.created
                                    THEN Append(pullForward.routesCreated, unit.route)
                                    ELSE pullForward.routesCreated]
  /\ pc' = "pullforward"
  /\ UNCHANGED <<input, routes, current, iteration, rebalance, sheet>>
  /\ UNCHANGED <<run, probe>>

\* the routes created join the routes array; runPlanningLoop returns
FinishPullForward ==
  /\ pc = "pullforward"
  /\ pullForward.k > Len(SlotPairs(input.carriers))
  /\ routes' = routes \o pullForward.routesCreated
  /\ pc' = "remaining"
  /\ UNCHANGED <<input, unassigned, current, used, shipState, iteration, rebalance,
                 pullForward, sheet>>
  /\ UNCHANGED <<run, probe>>

\* planRemainingShipments on the shipments runPlanningLoop returned
PlanRemaining ==
  /\ pc = "remaining"
  /\ sheet' = sheet \o planRemainingShipments(unassigned, shipState, input.context)
  /\ pc' = "done"
  /\ UNCHANGED <<input, unassigned, routes, current, used, shipState, iteration,
                 rebalance, pullForward>>
  /\ UNCHANGED <<run, probe>>

\* the number of 'UNUSED CAPACITY' and 'NOT PLANNED' rows generatePlan appends after
\* the run: one for each spare unit of the slots of a carrier that stands on the
\* sheet, one for each unit of the slots of a carrier that does not
UnusedCapacityRows(carriers, usedCount, rows) ==
  SumSeq([k \in 1..Len(SlotPairs(carriers)) |->
    IF \E j \in 1..Len(rows) : rows[j].carrier = carriers[SlotPairs(carriers)[k][1]].name
    THEN Max2(0, SpareUnits(carriers, usedCount, SlotPairs(carriers)[k]))
    ELSE carriers[SlotPairs(carriers)[k][1]].timeSlots[SlotPairs(carriers)[k][2]].capacity])

\* the route ids getRoutesForReplanning offers: the rows of carrier routes
ReplannableIds(carriers, rows) ==
  {rows[j].routeId : j \in {i \in 1..Len(rows) :
     \E c \in 1..Len(carriers) : carriers[c].name = rows[i].carrier}}

\* shipmentsToReplan: one shipment for each selected row, its store the text of the
\* 'Stop Sequence' cell, its pallets the row's total, its category 'Ambient' (the
\* sheet has no 'Category' column), its cluster 'Others' (no address has that text)
ShipmentsToReplan(rows) ==
  [i \in 1..Len(rows) |->
    [id |-> i, store |-> formatStopSequence(rows[i].stops), category |-> "Ambient",
     pallets |-> rows[i].totalPallets, productTypeId |-> "", cluster |-> "Others"]]

\* replanRoutes on a selection of route ids: the shipments are collected and the
\* selected rows deleted; the loop over the rows left reads carrierIdx, which
\* replanRoutes never declares, so with any row left the call ends there with a
\* ReferenceError; with none left runPlanningLoop starts on the carriers of a
\* fresh getCarriers
ReplanRoutes ==
  /\ pc = "done"
  /\ run.kind = "plan"
  /\ \E routeIds \in (SUBSET ReplannableIds(input.carriers, sheet)) \ {{}} :
       \E kept \in {SelectSeq(sheet, LAMBDA row : row.routeId \notin routeIds)} :
         /\ run' = [kind |-> "replan", sheet |-> kept, routes |-> routes]
         /\ sheet' = kept
         /\ IF kept # <<>> \/ UnusedCapacityRows(input.carriers, used, sheet) > 0
            THEN /\ pc' = "aborted"
                 /\ UNCHANGED <<input, unassigned, routes, current, used, shipState,
                                iteration, rebalance, pullForward>>
            ELSE \E shipmentsToReplan \in
                     {ShipmentsToReplan(SelectSeq(sheet,
                                         LAMBDA row : row.routeId \in routeIds))} :
                   /\ pc' = "loop"
                   /\ input' = [input EXCEPT !.shipments = shipmentsToReplan]
                   /\ unassigned' = shipmentsToReplan
                   /\ routes' = <<>>
                   /\ current' = NoOption
                   /\ used' = SlotUsageAtStart(input.carriers, used)
                   /\ shipState' = FreshShipState(shipmentsToReplan)
                   /\ iteration' = 1
                   /\ rebalance' = [improved |-> FALSE, iterations |-> 0]
                   /\ pullForward' = [k |-> 0, i |-> 0, n |-> 0, routesCreated |-> <<>>]
  /\ UNCHANGED probe

\* generatePlan once more on the same sheets: setupPlanSheet clears the plan sheet
\* and the sheets are read afresh
PlanAgain ==
  /\ pc = "done"
  /\ run.kind = "plan"
  /\ run' = [kind |-> "again", sheet |-> sheet, routes |-> routes]
  /\ unassigned' = input.shipments
  /\ routes' = <<>>
  /\ current' = NoOption
  /\ used' = SlotUsageAtStart(input.carriers, used)
  /\ shipState' = FreshShipState(input.shipments)
  /\ iteration' = 1
  /\ rebalance' = [improved |-> FALSE, iterations |-> 0]
  /\ pullForward' = [k |-> 0, i |-> 0, n |-> 0, routesCreated |-> <<>>]
  /\ sheet' = <<>>
  /\ pc' = "loop"
  /\ UNCHANGED <<input, probe>>

\* advancedOptimizeStopOrder on the stops, and once more on what it returned
SequenceStops ==
  /\ pc = "sequence"
  /\ \E order \in {advancedOptimizeStopOrder(unassigned, input.context.warehouse,
                                              input.context.distanceMatrix)} :
       probe' = [probe EXCEPT
                   !.order = order,
                   !.again = advancedOptimizeStopOrder(order, input.context.warehouse,
                                                       input.context.distanceMatrix)]
  /\ pc' = "load"
  /\ UNCHANGED <<input, unassigned, routes, current, used, shipState, iteration,
                 rebalance, pullForward, sheet, run>>

\* calculateRouteMetricsWithHOS on the stops as given: the loading at the depot
StartDuty ==
  /\ pc = "load"
  /\ probe' = [probe EXCEPT
                 !.m = StartOfDay(SumSeq([i \in 1..Len(unassigned) |->
                         LoadingTime(unassigned[i], input.context.detailedDurations)])),
                 !.at = input.context.warehouse,
                 !.left = UniqueStores(unassigned)]
  /\ pc' = "drive"
  /\ UNCHANGED <<input, unassigned, routes, current, used, shipState, iteration,
                 rebalance, pullForward, sheet, run>>

\* one round of the loop over the unique stores
DriveLeg ==
  /\ pc = "drive"
  /\ probe.left # <<>>
  /\ probe' = [probe EXCEPT
                 !.m = VisitStore(probe.m, probe.at, Head(probe.left), unassigned,
                                  input.context.distanceMatrix,
                                  input.context.detailedDurations),
                 !.at = Head(probe.left),
                 !.left = Tail(probe.left),
                 !.leg = LegMet(probe.m, probe.at, Head(probe.left),
                                input.context.distanceMatrix)]
  /\ pc' = "drive"
  /\ UNCHANGED <<input, unassigned, routes, current, used, shipState, iteration,
                 rebalance, pullForward, sheet, run>>

\* the return leg to the warehouse; the sums are complete
ReturnLeg ==
  /\ pc = "drive"
  /\ probe.left = <<>>
  /\ probe' = [probe EXCEPT
                 !.m = DriveTo(probe.m, probe.at, input.context.warehouse,
                               input.context.distanceMatrix),
                 !.at = input.context.warehouse,
                 !.leg = LegMet(probe.m, probe.at, input.context.warehouse,
                                input.context.distanceMatrix)]
  /\ pc' = "measured"
  /\ UNCHANGED <<input, unassigned, routes, current, used, shipState, iteration,
                 rebalance, pullForward, sheet, run>>

Next ==
  \/ ScoreInsertion
  \/ InsertIntoRoutes
  \/ SeedFailed
  \/ SeedPlaced
  \/ GrowRoute
  \/ DisbandRoute
  \/ CommitRoute
  \/ FinishLoop
  \/ Consolidate
  \/ Swap
  \/ WriteRoutes
  \/ PullForward
  \/ FinishPullForward
  \/ PlanRemaining
  \/ PlanAgain
  \/ ReplanRoutes
  \/ SequenceStops
  \/ StartDuty
  \/ DriveLeg
  \/ ReturnLeg

Spec == Init /\ [][Next]_vars

(***************************************************************************)
(* Properties.  The output of a planning run is the plan sheet: the rows   *)
(* written by writeRouteToSheet for committed routes, overspill routes and *)
(* manual-review groups.  The committed routes are those of the routes     *)
(* array and those the pull-forward pass has created.                      *)
(***************************************************************************)

\* number of stops with the given shipment id on a sequence of stops
RECURSIVE CountId(_, _)
CountId(id, stops) ==
  IF stops = <<>> THEN 0
  ELSE (IF stops[1].id = id THEN 1 ELSE 0) + CountId(id, Tail(stops))

\* number of times a shipment id stands on the rows of the plan sheet
RECURSIVE Occurrences(_, _)
Occurrences(id, rows) ==
  IF rows = <<>> THEN 0
  ELSE CountId(id, rows[1].stops) + Occurrences(id, Tail(rows))

Committed == SeqToSet(routes) \cup SeqToSet(pullForward.routesCreated)

\* the committed routes and the route under construction
Built ==
  Committed \cup (IF pc \in {"grow", "close", "accepted"} THEN {current.route} ELSE {})

\* the rows of the plan sheet that stand for committed routes
CommittedRows ==
  {sheet[i] : i \in {j \in 1..Len(sheet) :
     \E c \in 1..Len(input.carriers) : input.carriers[c].name = sheet[j].carrier}}

CapacityOf(r) ==
  CapacityFor(r.carrier, getRequiredTrailerSize(r, input.context.restrictions))

\* C1 (as stated): when runPlanningLoop and planRemainingShipments have both
\* finished, every input shipment stands exactly once in the output, on the row
\* of a committed route, of an overspill route or of a manual-review group.
C1_EveryShipmentOnceInOutput ==
  pc = "done" =>
    \A i \in 1..Len(input.shipments) : Occurrences(input.shipments[i].id, sheet) = 1

\* C2: every committed route, and the route under construction, carries the sum of
\* the pallets of its stops, and that total is at most the carrier's capacity for
\* the route's required trailer size times the overplan factor.
C2_CommittedWithinCapacity ==
  \A r \in Built :
    /\ r.totalPallets = PalletSum(r.stops)
    /\ r.totalPallets * input.context.OVERPLAN_DEN
         <= CapacityOf(r) * input.context.OVERPLAN_NUM

\* a finished run with a committed route filled to its capacity after the
\* rebalancer has changed the routes
C2_Witness ==
  /\ pc = "done"
  /\ rebalance.iterations > 1
  /\ \E r \in Committed : Len(r.stops) > 2 /\ r.totalPallets = CapacityOf(r)

\* C3 (as stated): the mileage reported for every committed route, which is that of
\* its sequenced stop order, is at most MAX_ROUTE_MILEAGE.
C3_SequencedMileageWithinCap ==
  \A row \in CommittedRows : row.totalDistance <= input.context.MAX_ROUTE_MILEAGE

\* the distance of the leg from one location to the next (0 when neither direction
\* is known)
LegMiles(from, to) ==
  IF HasLeg(input.context.distanceMatrix, from, to)
    THEN input.context.distanceMatrix[<<from, to>>].distance
  ELSE IF HasLeg(input.context.distanceMatrix, to, from)
    THEN input.context.distanceMatrix[<<to, from>>].distance
  ELSE 0

\* depot, the stores in the order given, depot
Itinerary(stops) ==
  <<input.context.warehouse>> \o UniqueStores(stops) \o <<input.context.warehouse>>

\* C4 (as stated): on the sequenced stop order of every committed route no leg,
\* between consecutive stops or between the depot and a stop, is longer than the
\* hard leg limit.
C4_SequencedLegsWithinHardLimit ==
  \A row \in CommittedRows :
    \A k \in 1..(Len(Itinerary(row.stops)) - 1) :
      LegMiles(Itinerary(row.stops)[k], Itinerary(row.stops)[k + 1])
        <= HardLegLimit(input.context)

\* Freezer together with another category
FreezerMixed(stops) ==
  /\ "Freezer" \in CategoriesOf(stops)
  /\ CategoriesOf(stops) \cap {"Chiller", "Ambient", "Produce"} # {}

AmbientTotal(stops, store) ==
  PerStoreCounts(stops)[store]["Ambient"] + PerStoreCounts(stops)[store]["Produce"]

ChillerTotal(stops, store) == PerStoreCounts(stops)[store]["Chiller"]

\* C6 (amended): with the mixed-zone flag on and no Freezer, the scorer accepts a
\* shipment on a route only if every store of the resulting stops has no Chiller
\* pallets or an Ambient plus Produce total of at most SMALL_AMBIENT_THRESHOLD.
C6_MixedZoneAtMostThreshold ==
  (pc = "accepted" /\ input.context.ALLOW_ALL_ALL
     /\ "Freezer" \notin CategoriesOf(current.route.stops)) =>
    \A st \in SeqToSet(StoresOf(current.route.stops)) :
      \/ ChillerTotal(current.route.stops, st) = 0
      \/ AmbientTotal(current.route.stops, st) <= input.context.SMALL_AMBIENT_THRESHOLD

\* C6 (as stated): the same with the total staying under the threshold.
C6_MixedZoneUnderThreshold ==
  (pc = "accepted" /\ input.context.ALLOW_ALL_ALL
     /\ "Freezer" \notin CategoriesOf(current.route.stops)) =>
    \A st \in SeqToSet(StoresOf(current.route.stops)) :
      \/ ChillerTotal(current.route.stops, st) = 0
      \/ AmbientTotal(current.route.stops, st) < input.context.SMALL_AMBIENT_THRESHOLD

\* an accepted insertion after which a store has Chiller pallets and an Ambient plus
\* Produce total equal to the threshold
C6_Witness ==
  /\ pc = "accepted"
  /\ input.context.ALLOW_ALL_ALL
  /\ \E st \in SeqToSet(StoresOf(current.route.stops)) :
       /\ ChillerTotal(current.route.stops, st) > 0
       /\ AmbientTotal(current.route.stops, st) = input.context.SMALL_AMBIENT_THRESHOLD

\* C7 (as stated): the duty status reported for every committed route, which is
\* that of its sequenced stop order, is OK.
C7_SequencedDutyStatusOk ==
  \A row \in CommittedRows : row.hosStatus = "OK"

\* the minute of the day of the slot a route stands on, from the carriers as read
SlotOf(r) ==
  CHOOSE p \in SeqToSet(SlotPairs(input.carriers)) :
    /\ input.carriers[p[1]].name = r.carrier.name
    /\ input.carriers[p[1]].timeSlots[p[2]].time = r.time

SlotMinutesOf(r) == input.carriers[SlotOf(r)[1]].slotMinutes[SlotOf(r)[2]]

\* a minute inside a window <<start, end>>, one with start > end wrapping past midnight
Inside(m, w) ==
  IF w[1] <= w[2] THEN m >= w[1] /\ m <= w[2] ELSE m >= w[1] \/ m <= w[2]

\* the stop's store has a delivery window and the minute lies outside it
OutsideWindow(stop, m) ==
  /\ stop.store \in DOMAIN input.windows
  /\ input.windows[stop.store] # <<>>
  /\ ~Inside(m, input.windows[stop.store])

\* C8: every stop of a committed route or of a route under construction whose store
\* has a delivery window is served from a slot whose minute lies inside the window;
\* a shipment the scorer has accepted lies inside its window for the route's slot.
C8_StopsInsideWindow ==
  /\ \A r \in Committed \cup (IF pc \in {"grow", "close"} THEN {current.route} ELSE {}) :
       \A i \in 1..Len(r.stops) : ~OutsideWindow(r.stops[i], SlotMinutesOf(r))
  /\ pc = "accepted" =>
       ~OutsideWindow(current.route.stops[Len(current.route.stops)],
                      SlotMinutesOf(current.route))

\* a finished run with a committed route that serves a store whose window wraps past
\* midnight and another that serves a store with a daytime window
C8_Witness ==
  /\ pc = "done"
  /\ \E r \in Committed : \E i \in 1..Len(r.stops) :
       /\ r.stops[i].store \in DOMAIN input.windows
       /\ input.windows[r.stops[i].store] # <<>>
       /\ input.windows[r.stops[i].store][1] > input.windows[r.stops[i].store][2]
  /\ \E r \in Committed : \E i \in 1..Len(r.stops) :
       /\ r.stops[i].store \in DOMAIN input.windows
       /\ input.windows[r.stops[i].store] # <<>>
       /\ input.windows[r.stops[i].store][1] < input.windows[r.stops[i].store][2]

\* C9: every committed route, and the route under construction, serves at most
\* MAX_STOPS_GENERAL distinct stores, a store with several categories counting once.
C9_StoresWithinStopLimit ==
  \A r \in Built : Cardinality(SeqToSet(StoresOf(r.stops))) <= input.context.MAX_STOPS_GENERAL

\* a finished run with a committed route at the stop limit that has more stops than
\* stores, the shipments having more stores than the limit
C9_Witness ==
  /\ pc = "done"
  /\ Cardinality(SeqToSet(StoresOf(input.shipments))) > input.context.MAX_STOPS_GENERAL
  /\ \E r \in Committed :
       /\ Cardinality(SeqToSet(StoresOf(r.stops))) = input.context.MAX_STOPS_GENERAL
       /\ Len(r.stops) > input.context.MAX_STOPS_GENERAL

\* the committed routes on a carrier slot
RoutesOn(c, sl) ==
  Len(SelectSeq(routes \o (IF pc = "pullforward" THEN pullForward.routesCreated ELSE <<>>),
        LAMBDA r : /\ r.carrier.name = input.carriers[c].name
                   /\ r.time = input.carriers[c].timeSlots[sl].time))

\* C10: at every point of a run and for every carrier slot, the used-count is at
\* most the capacity, and so is the number of committed routes on the slot,
\* pull-forward routes included.
C10_SlotsWithinCapacity ==
  \A c \in 1..Len(input.carriers) :
    \A sl \in 1..Len(input.carriers[c].timeSlots) :
      /\ used[c][sl] <= input.carriers[c].timeSlots[sl].capacity
      /\ RoutesOn(c, sl) <= input.carriers[c].timeSlots[sl].capacity

\* a finished run in which a slot is filled to its capacity by committed routes and
\* a later seed has found no carrier
C10_Witness ==
  /\ pc = "done"
  /\ \E i \in 1..Len(input.shipments) : shipState[i].failureReason = "No Viable Carrier"
  /\ \E c \in 1..Len(input.carriers) :
       \E sl \in 1..Len(input.carriers[c].timeSlots) :
         /\ used[c][sl] = input.carriers[c].timeSlots[sl].capacity
         /\ RoutesOn(c, sl) = input.carriers[c].timeSlots[sl].capacity

\* the manual-review group of a terminal failure reason
GroupOf(failureReason) ==
  IF failureReason = "Time Constraint" THEN "Time_1" ELSE "Other_1"

\* C11 (as stated): every shipment with a terminal failure reason is on no carrier
\* route, neither of the main loop nor of the pull-forward pass, and when the run
\* has finished it stands in the manual-review group of its reason.
C11_FailedShipmentsInManualReview ==
  \A i \in 1..Len(input.shipments) :
    shipState[input.shipments[i].id].failureReason # "" =>
      /\ \A r \in Built : CountId(input.shipments[i].id, r.stops) = 0
      /\ pc = "done" =>
           \E j \in 1..Len(sheet) :
             /\ sheet[j].routeId = GroupOf(shipState[input.shipments[i].id].failureReason)
             /\ CountId(input.shipments[i].id, sheet[j].stops) = 1

C13_SequencerDeterministicIdempotent ==
  pc \in {"load", "drive", "measured"} =>
    /\ Len(probe.order) = Len(unassigned)
    /\ \A i \in 1..Len(unassigned) : CountId(unassigned[i].id, probe.order) = 1
    /\ probe.order = advancedOptimizeStopOrder(unassigned, input.context.warehouse,
                                               input.context.distanceMatrix)
    /\ probe.again = probe.order

\* the sequencer has reordered three stores, one of them with Chiller freight, where
\* two of the stores were equally near to the third
C13_Witness ==
  /\ pc = "load"
  /\ probe.order # unassigned
  /\ Len(UniqueStores(unassigned)) = 3
  /\ \E i \in 1..Len(unassigned) : HasCold(unassigned, unassigned[i].store)
  /\ LegMiles("B", "A") = LegMiles("B", "C")
  /\ probe.again = probe.order

\* the stops but the last
AllButLast(stops) == SubSeq(stops, 1, Len(stops) - 1)

\* C14 (as stated): the travel time and the on-duty time the simulator computes for
\* a stop sequence are each at least those it computes for the sequence without
\* its last stop.
C14_SimulatorMonotonic ==
  (pc = "measured" /\ Len(unassigned) > 1) =>
    /\ probe.m.travelTime
         >= RouteMetricsRaw(AllButLast(unassigned), input.context.warehouse,
                            input.context.distanceMatrix,
                            input.context.detailedDurations).travelTime
    /\ probe.m.onDutyTime
         >= RouteMetricsRaw(AllButLast(unassigned), input.context.warehouse,
                            input.context.distanceMatrix,
                            input.context.detailedDurations).onDutyTime

\* the depot distance of a store is missing from the matrix in both directions
DepotLegMissing(store) ==
  /\ ~HasLeg(input.context.distanceMatrix, input.context.warehouse, store)
  /\ ~HasLeg(input.context.distanceMatrix, store, input.context.warehouse)

\* C15 (as stated): no route is accepted, costed or committed to a store whose
\* distance from the depot is missing from the matrix: neither a committed route
\* nor the route under construction has a stop at such a store.
C15_NoRouteOverMissingDepotLeg ==
  \A r \in Built : \A i \in 1..Len(r.stops) : ~DepotLegMissing(r.stops[i].store)

\* an empty route on the carrier slot p, offered to the shipment
EmptyRouteOn(shipment, p) ==
  [SeedRoute(shipment, input.carriers, p) EXCEPT !.stops = <<>>, !.totalPallets = 0]

\* the shipment alone passes every check of the scorer on a free unit of slot p
ViableAlone(shipment, p) ==
  /\ used[p[1]][p[2]] < input.carriers[p[1]].timeSlots[p[2]].capacity
  /\ checkAndScoreInsertion(shipment, EmptyRouteOn(shipment, p), input.context).ok

\* C16 (as stated): a seed that alone passes the capacity, window, leg, mileage and
\* duty checks on an empty route of some carrier slot with a free unit is given a
\* carrier and slot by findBestInitialCarrier, so it is not classified as failed.
C16_SeedScoredAgainstEmptyRoute ==
  (pc = "seed" /\ SeedIndex(unassigned, shipState, input.context) # 0) =>
    ((\E k \in 1..Len(SlotPairs(input.carriers)) :
        ViableAlone(unassigned[SeedIndex(unassigned, shipState, input.context)],
                    SlotPairs(input.carriers)[k]))
     => findBestInitialCarrier(
          unassigned[SeedIndex(unassigned, shipState, input.context)],
          input.carriers, used, input.context).found)

\* the rows left on the sheet by replanRoutes that stand for routes of the run
\* before on the carrier slot (c, sl)
SurvivingOn(c, sl) ==
  Cardinality({j \in 1..Len(run.sheet) :
    \E k \in 1..Len(run.routes) :
      /\ run.routes[k].routeId = run.sheet[j].routeId
      /\ run.routes[k].carrier.name = input.carriers[c].name
      /\ run.routes[k].time = input.carriers[c].timeSlots[sl].time})

\* C17 (as stated): replanRoutes on a selection of routes starts a planning run
\* that sees on every carrier slot a used-count that counts the surviving routes
\* of the slot, and the surviving routes together with the routes the new run
\* commits on the slot never exceed the slot's capacity.
C17_ReplanCountsSurvivingRoutes ==
  run.kind = "replan" =>
    /\ pc # "aborted"
    /\ \A c \in 1..Len(input.carriers) :
         \A sl \in 1..Len(input.carriers[c].timeSlots) :
           /\ used[c][sl] >= SurvivingOn(c, sl)
           /\ SurvivingOn(c, sl) + RoutesOn(c, sl)
                <= input.carriers[c].timeSlots[sl].capacity

\* the matrix has the distance between the two places in one direction at least
LegKnown(from, to) ==
  \/ HasLeg(input.context.distanceMatrix, from, to)
  \/ HasLeg(input.context.distanceMatrix, to, from)

\* every leg of the itinerary of the stops as the sequencer orders them is known
EveryLegKnown(stops) ==
  \A k \in 1..(Len(Itinerary(stops)) - 1) :
    LegKnown(
      Itinerary(advancedOptimizeStopOrder(stops, input.context.warehouse,
                                          input.context.distanceMatrix))[k],
      Itinerary(advancedOptimizeStopOrder(stops, input.context.warehouse,
                                          input.context.distanceMatrix))[k + 1])

\* C18 (as stated): when checkAndScoreInsertion has returned a score, no leg of the
\* current sequence and none of the proposed one is missing from the matrix, so the
\* score stands on no distance put at zero for a missing leg.
C18_ScoreOnlyOverKnownLegs ==
  pc = "accepted" =>
    /\ EveryLegKnown(current.route.stops)
    /\ Len(current.route.stops) > 1 => EveryLegKnown(AllButLast(current.route.stops))

\* C19: on every leg the simulator meets, the return leg included, one break is
\* taken exactly when the on-duty time before the leg plus the leg's duration is
\* over 480 minutes times the breaks taken so far plus one (481 minutes: a break;
\* 480 minutes: none), and the total duration reported is the travel time plus the
\* stop time (loading and unloading) plus 30 minutes for each break.
C19_BreakBeforeLegPastBoundary ==
  pc \in {"drive", "measured"} =>
    /\ probe.leg.known =>
         IF probe.leg.onDutyBefore + 26 * probe.leg.duration
              > 26 * 480 * (probe.leg.breaksBefore + 1)
         THEN probe.m.breaksTaken = probe.leg.breaksBefore + 1
         ELSE probe.m.breaksTaken = probe.leg.breaksBefore
    /\ MetricsOf(probe.m).totalDuration
         = MetricsOf(probe.m).travelTime + MetricsOf(probe.m).stopTime
           + 30 * probe.m.breaksTaken
    /\ pc = "measured" =>
         MetricsOf(probe.m)
           = calculateRouteMetricsWithHOS(unassigned, input.context.warehouse,
               input.context.distanceMatrix, input.context.detailedDurations)

\* a day measured whose return leg would have brought the on-duty time from 315 to
\* 481 minutes: one break, and a total duration of 511 minutes
C19_Witness ==
  /\ pc = "measured"
  /\ probe.leg.known
  /\ probe.leg.breaksBefore = 0
  /\ probe.leg.onDutyBefore + 26 * probe.leg.duration = 26 * 481
  /\ probe.m.breaksTaken = 1
  /\ MetricsOf(probe.m).totalDuration = 511

\* the legs of the itinerary of the stops in the order given, each by the rule of
\* the leg check: the forward edge, or the reverse edge when the forward is absent
RuleDistance(stops) ==
  SumSeq([k \in 1..(Len(Itinerary(stops)) - 1) |->
    LegMiles(Itinerary(stops)[k], Itinerary(stops)[k + 1])])

\* C20 (as stated): for a stop sequence of which the matrix knows every leg in one
\* direction at least, the total distance the simulator reports is the sum of the
\* legs depot to first stop, stop to stop and last stop to depot, each looked up
\* forward, or in reverse when the forward edge is absent.
C20_TotalDistanceByLegRule ==
  (/\ pc = "measured"
   /\ \A k \in 1..(Len(Itinerary(unassigned)) - 1) :
        LegKnown(Itinerary(unassigned)[k], Itinerary(unassigned)[k + 1]))
  => MetricsOf(probe.m).totalDistance = RuleDistance(unassigned)

\* the shipment at index i of the pool may be taken as seed
Seedable(i) ==
  /\ shipState[unassigned[i].id].attempts < input.context.MAX_PLANNING_ATTEMPTS
  /\ shipState[unassigned[i].id].failureReason = ""

\* a seed is taken: the step from the seed selection to the growth of its route or
\* back to the head of the loop
SeedTaken == pc = "seed" /\ pc' \in {"grow", "loop"}

\* C21: the seed taken is the first shipment of the pool, which stands in
\* descending-pallet order, whose attempt count is below the cap and which has no
\* failure reason; its attempt count goes up by exactly one and no other count
\* changes; no attempt count is ever over the cap.
C21_SeedBelowAttemptCap ==
  /\ [](\A id \in DOMAIN shipState :
          shipState[id].attempts <= input.context.MAX_PLANNING_ATTEMPTS)
  /\ [][SeedTaken =>
          \E i \in 1..Len(unassigned) :
            /\ Seedable(i)
            /\ \A j \in 1..(i - 1) :
                 ~Seedable(j) /\ unassigned[j].pallets >= unassigned[i].pallets
            /\ \A j \in (i + 1)..Len(unassigned) :
                 unassigned[j].pallets <= unassigned[i].pallets
            /\ \A id \in DOMAIN shipState :
                 shipState'[id].attempts
                   = shipState[id].attempts + (IF id = unassigned[i].id THEN 1 ELSE 0)
            /\ \A k \in 1..Len(unassigned') :
                 unassigned'[k].id = unassigned[i].id => k = Len(unassigned')]_vars

\* a seed is about to be taken that is not the head of the pool, past a shipment
\* that has used up its attempts
C21_Witness ==
  /\ pc = "seed"
  /\ \E i \in 2..Len(unassigned) :
       /\ Seedable(i)
       /\ \A j \in 1..(i - 1) : ~Seedable(j)
       /\ shipState[unassigned[1].id].attempts = input.context.MAX_PLANNING_ATTEMPTS
       /\ shipState[unassigned[1].id].failureReason = ""

\* the shipment's store has a delivery window on the Restrictions sheet
WindowAt(store) ==
  store \in DOMAIN input.windows /\ input.windows[store] # <<>>

\* the shipment stands in the pool and on no route of the main loop
InPoolOnly(id, pool, held, option) ==
  /\ CountId(id, pool) = 1
  /\ \A k \in 1..Len(held) : CountId(id, held[k].stops) = 0
  /\ option.found => CountId(id, option.route.stops) = 0

\* C22: a seed for which no carrier slot is viable gets the failure reason
\* "Time Constraint" when its store has a delivery window and "No Viable Carrier"
\* otherwise, and goes back to the pool; a seed that is placed gets none.  Within a
\* run a failure reason once set is never changed or cleared and the shipment's
\* attempt count stays as it is; through the main loop the shipment stays in the
\* pool, on no route, and no growth scan counts a failure for it.
C22_FailureReasonPermanent ==
  [][/\ run' = run =>
          \A id \in DOMAIN shipState :
            shipState[id].failureReason # "" =>
              /\ shipState'[id].failureReason = shipState[id].failureReason
              /\ shipState'[id].attempts = shipState[id].attempts
              /\ pc \in {"loop", "seed", "grow", "close"} =>
                   /\ shipState'[id].insertionFailures = shipState[id].insertionFailures
                   /\ InPoolOnly(id, unassigned, routes, current)
                   /\ InPoolOnly(id, unassigned', routes', current')
     /\ SeedTaken =>
          \A i \in 1..Len(unassigned) :
            shipState'[unassigned[i].id].attempts # shipState[unassigned[i].id].attempts =>
              IF pc' = "loop"
              THEN /\ shipState'[unassigned[i].id].failureReason
                        = (IF WindowAt(unassigned[i].store) THEN "Time Constraint"
                           ELSE "No Viable Carrier")
                   /\ InPoolOnly(unassigned[i].id, unassigned', routes', current')
                   /\ \A k \in 1..Len(SlotPairs(input.carriers)) :
                        ~SeedViable(unassigned[i], input.carriers, used,
                                    SlotPairs(input.carriers)[k], input.context)
              ELSE /\ shipState'[unassigned[i].id].failureReason = ""
                   /\ \E k \in 1..Len(SlotPairs(input.carriers)) :
                        SeedViable(unassigned[i], input.carriers, used,
                                   SlotPairs(input.carriers)[k], input.context)]_vars

\* a route is growing while the pool holds a shipment that has failed with
\* "Time Constraint", for which the scan would count a failure were it scored
C22_Witness ==
  /\ pc = "grow"
  /\ \E i \in 1..Len(unassigned) :
       /\ shipState[unassigned[i].id].failureReason = "Time Constraint"
       /\ ~checkAndScoreInsertion(unassigned[i], current.route, input.context).ok

\* the shipment may join the route by the cluster rule: the route's tag is 'Others'
\* or the shipment's cluster, or the shipment's insertion failures or the route's
\* seed attempts have reached their thresholds
ClusterAdmits(route, shipment) ==
  \/ route.cluster = "Others"
  \/ shipment.cluster = route.cluster
  \/ shipState[shipment.id].insertionFailures >= input.context.CLUSTER_FAILURE_THRESHOLD
  \/ route.seedAttempts >= input.context.RELAX_MIN_ATTEMPTS

\* C23 (as stated): in the main loop a shipment joins a route, the route that is
\* growing or a held route in the insertion pass at the head of the loop, only if
\* the cluster rule admits it.
C23_ClusterGateInMainLoop ==
  [][/\ (pc = "grow" /\ pc' = "grow") =>
          \A k \in 1..Len(current'.route.stops) :
            CountId(current'.route.stops[k].id, current.route.stops) = 0 =>
              ClusterAdmits(current.route, current'.route.stops[k])
     /\ (pc = "loop" /\ pc' = "seed") =>
          \A r \in 1..Len(routes) :
            \A k \in 1..Len(routes'[r].stops) :
              CountId(routes'[r].stops[k].id, routes[r].stops) = 0 =>
                ClusterAdmits(routes[r], routes'[r].stops[k])]_vars

\* the route's pallets reach the minimum per route, times the relaxation factor
\* once the seed's attempts have reached the relaxation threshold
ReachesMinimum(route) ==
  IF route.seedAttempts >= input.context.RELAX_MIN_ATTEMPTS
  THEN PalletSum(route.stops) * input.context.RELAX_MIN_FACTOR_DEN
         >= input.context.MIN_PALLETS_PER_ROUTE * input.context.RELAX_MIN_FACTOR_NUM
  ELSE PalletSum(route.stops) >= input.context.MIN_PALLETS_PER_ROUTE

\* the step that closes the route grown in the main loop
RouteClosed == pc = "close" /\ pc' = "loop"

\* C24: the grown route is committed exactly when its pallets reach the (relaxed)
\* minimum: then it is appended to the held routes with the slot charged once.
\* Otherwise it is disbanded: every stop, the seed included, is back in the pool
\* once with its insertion-failure counter one higher, no other counter moves, the
\* used-counts, the route counter and the held routes are unchanged.
C24_CommitOrDisband ==
  [][RouteClosed =>
       IF ReachesMinimum(current.route)
       THEN /\ Len(routes') = Len(routes) + 1
            /\ SubSeq(routes', 1, Len(routes)) = routes
            /\ routes'[Len(routes')].stops = current.route.stops
            /\ used' = [used EXCEPT ![current.c][current.s] = @ + 1]
            /\ unassigned' = unassigned /\ shipState' = shipState
       ELSE /\ routes' = routes /\ used' = used /\ iteration' = iteration
            /\ \A k \in 1..Len(current.route.stops) :
                 /\ CountId(current.route.stops[k].id, unassigned') = 1
                 /\ shipState'[current.route.stops[k].id].insertionFailures
                      = shipState[current.route.stops[k].id].insertionFailures + 1
            /\ \A i \in 1..Len(unassigned) :
                 /\ CountId(unassigned[i].id, unassigned') = 1
                 /\ shipState'[unassigned[i].id] = shipState[unassigned[i].id]
            /\ Len(unassigned') = Len(unassigned) + Len(current.route.stops)]_vars

\* the first route of the run fell short and was disbanded: its seed, the only
\* shipment seeded so far, is back in the pool with one failure counted, and no
\* route is held
C24_Witness ==
  /\ pc = "loop" /\ run.kind = "plan" /\ routes = <<>> /\ iteration = 1
  /\ Len(unassigned) >= 2
  /\ \E i \in 1..Len(unassigned) :
       /\ shipState[unassigned[i].id] =
            [attempts |-> 1, insertionFailures |-> 1, failureReason |-> ""]
       /\ \A j \in 1..Len(unassigned) :
            j # i => shipState[unassigned[j].id].attempts = 0

\* the seed selections of the run so far: every selection adds one attempt
SeedSelections == SumSeq([id \in DOMAIN shipState |-> shipState[id].attempts])

\* the positions of a planning run that has not ended
Running == {"loop", "seed", "grow", "close", "rebalance", "swap", "pullforward",
            "remaining"}

\* what is left of a run, to be read in lexical order: the phase; in the main
\* loop the seed selections left under the cap and the place within one turn of
\* the loop (a growing route counts the pool); in the rebalancer the rounds left
\* under the cap; in the pull-forward pass the slots and the spare units left
Remaining ==
  CASE pc \in {"loop", "seed", "grow", "close"} ->
         <<4, Len(input.shipments) * MAX_PLANNING_ATTEMPTS - SeedSelections,
           CASE pc = "seed" -> 0 [] pc = "loop" -> 1 [] pc = "close" -> 2
             [] pc = "grow" -> 3 + Len(unassigned)>>
    [] pc \in {"rebalance", "swap"} ->
         <<3, MAX_REBALANCE_ITERATIONS - rebalance.iterations,
           IF pc = "swap" THEN 1 ELSE 0>>
    [] pc = "pullforward" ->
         <<2, Len(SlotPairs(input.carriers)) + 1 - pullForward.k,
           pullForward.n - pullForward.i>>
    [] pc = "remaining" -> <<1, 0, 0>>
    [] OTHER -> <<0, 0, 0>>

LexLess(a, b) ==
  \/ a[1] < b[1]
  \/ a[1] = b[1] /\ a[2] < b[2]
  \/ a[1] = b[1] /\ a[2] = b[2] /\ a[3] < b[3]

\* C25: every planning run comes to its end.  The seed selections never exceed
\* the number of shipments times the attempt cap, the rebalancer never passes its
\* round cap, what is left of the run is never negative and every step of a run
\* leaves strictly less of it: a seed selection uses up one of the selections, a
\* turn of a growth loop takes a shipment out of the pool, a rebalancing round
\* is counted.  The rebalancer starts a round only at the start or after a round
\* that improved, reports a round as improved exactly when the round changed the
\* routes, and stops only after a round that did not improve or at the cap.
C25_RunTerminates ==
  /\ [](/\ SeedSelections <= Len(input.shipments) * MAX_PLANNING_ATTEMPTS
        /\ rebalance.iterations <= MAX_REBALANCE_ITERATIONS
        /\ \A k \in 1..3 : Remaining[k] >= 0)
  /\ [][/\ pc \in Running =>
             pc' \in Running \cup {"done"} /\ LexLess(Remaining', Remaining)
        /\ (pc = "grow" /\ pc' = "grow") => Len(unassigned') < Len(unassigned)
        /\ (pc = "seed" /\ pc' \in {"grow", "loop"}) =>
             SeedSelections' = SeedSelections + 1
        /\ (pc = "rebalance" /\ pc' = "swap") =>
             /\ rebalance.improved
             /\ rebalance.iterations < MAX_REBALANCE_ITERATIONS
             /\ rebalance'.iterations = rebalance.iterations + 1
             /\ rebalance'.improved = (routes' # routes)
        /\ (pc = "swap" /\ pc' = "rebalance") =>
             /\ rebalance'.iterations = rebalance.iterations
             /\ rebalance'.improved = (rebalance.improved \/ routes' # routes)
        /\ (pc = "rebalance" /\ pc' = "pullforward") =>
             \/ ~rebalance.improved
             \/ rebalance.iterations = MAX_REBALANCE_ITERATIONS]_vars

\* the rebalancer has stopped after a second round, the first round to change
\* nothing, with rounds to spare under the cap
C25_Witness ==
  /\ pc = "pullforward" /\ routes # <<>>
  /\ rebalance.iterations = 2 /\ ~rebalance.improved

\* the simulated insertions as the claim describes them: step k shows the scorer
\* the target with the stops already moved and the pallet total that goes with them
MovesOneByOne(source, target) ==
  \A k \in 1..Len(source.stops) :
    checkAndScoreInsertion(source.stops[k],
      [target EXCEPT !.stops = target.stops \o SubSeq(source.stops, 1, k - 1),
                     !.totalPallets = target.totalPallets
                                        + PalletSum(SubSeq(source.stops, 1, k - 1))],
      input.context).ok

\* route i of rs may be merged into route j
Mergeable(rs, i, j) ==
  /\ i # j
  /\ SameSlot(rs[i], rs[j])
  /\ MovesOneByOne(rs[i], rs[j])
  /\ isRouteValid([rs[j] EXCEPT !.stops = rs[j].stops \o rs[i].stops,
                                !.totalPallets = rs[j].totalPallets + rs[i].totalPallets],
                  input.context)

\* the consolidation pass of a rebalancing round
ConsolidationDone == pc = "rebalance" /\ pc' = "swap"

\* C26 (as stated): the consolidation pass merges a source into a target exactly
\* when they share carrier and slot, the scorer takes the source's stops one by
\* one, and the merged route validates.  With no such pair the routes stay as they
\* are; with such a pair a merge takes place.  After the pass every route begins
\* with the stops it had, holds the sum of its stops' pallets, and every stop of
\* every route stands once on a route of its own carrier and slot.
C26_ConsolidateExactlyWhen ==
  [][ConsolidationDone =>
       /\ (\E i, j \in 1..Len(routes) : Mergeable(routes, i, j))
            <=> Len(routes') < Len(routes)
       /\ (\A i, j \in 1..Len(routes) : ~Mergeable(routes, i, j)) => routes' = routes
       /\ \A r \in 1..Len(routes') :
            /\ \E j \in 1..Len(routes) :
                 /\ routes'[r].routeId = routes[j].routeId
                 /\ Len(routes'[r].stops) >= Len(routes[j].stops)
                 /\ SubSeq(routes'[r].stops, 1, Len(routes[j].stops)) = routes[j].stops
            /\ routes'[r].totalPallets = PalletSum(routes'[r].stops)
       /\ \A i \in 1..Len(routes) :
            \A k \in 1..Len(routes[i].stops) :
              /\ SumSeq([r \in 1..Len(routes') |->
                          CountId(routes[i].stops[k].id, routes'[r].stops)]) = 1
              /\ \A r \in 1..Len(routes') :
                   CountId(routes[i].stops[k].id, routes'[r].stops) = 1 =>
                     SameSlot(routes[i], routes'[r])]_vars

\* the summed score of the routes k..Len(rs) that share carrier and slot with route r
RECURSIVE SlotScore(_, _, _)
SlotScore(rs, r, k) ==
  IF k > Len(rs) THEN Frac(0, 1, ScoreDen(rs[r].carrier))
  ELSE IF SameSlot(rs[k], rs[r])
    THEN FracAdd(calculateRouteScore(rs[k], input.context), SlotScore(rs, r, k + 1),
                 ScoreDen(rs[r].carrier))
  ELSE SlotScore(rs, r, k + 1)

\* the routes rs with stop si of route i and stop sj of route j exchanged
Exchanged(rs, i, j, si, sj) ==
  [r \in 1..Len(rs) |->
    IF r = i
      THEN [rs[i] EXCEPT !.stops[si] = rs[j].stops[sj],
                         !.totalPallets = @ - rs[i].stops[si].pallets
                                            + rs[j].stops[sj].pallets]
    ELSE IF r = j
      THEN [rs[j] EXCEPT !.stops[sj] = rs[i].stops[si],
                         !.totalPallets = @ - rs[j].stops[sj].pallets
                                            + rs[i].stops[si].pallets]
    ELSE rs[r]]

\* a swap the rule keeps: the summed score falls and both routes validate
Keepable(rs, i, j, si, sj) ==
  /\ SameSlot(rs[i], rs[j])
  /\ FracLess(SlotScore(Exchanged(rs, i, j, si, sj), i, 1), SlotScore(rs, i, 1))
  /\ isRouteValid(Exchanged(rs, i, j, si, sj)[i], input.context)
  /\ isRouteValid(Exchanged(rs, i, j, si, sj)[j], input.context)

\* the swap pass of a rebalancing round
SwapDone == pc = "swap" /\ pc' = "rebalance"

\* C27: the swap pass keeps a swap only if the summed score falls strictly and
\* both routes validate, and restores the routes otherwise.  After the pass no
\* route is added or removed and a route differs at most in its stops and pallet
\* total; a route that differs validates, holds as many stops as before, each of
\* them from a route of its carrier and slot, holds the sum of their pallets, and
\* the summed score of the routes of its carrier and slot is strictly lower; every
\* stop is on one route; and when no swap of two stops is one the rule keeps,
\* every route is exactly as it was.
C27_SwapKeptOrRestored ==
  [][SwapDone =>
       /\ Len(routes') = Len(routes)
       /\ \A r \in 1..Len(routes) :
            /\ routes'[r] = [routes[r] EXCEPT !.stops = routes'[r].stops,
                                              !.totalPallets = routes'[r].totalPallets]
            /\ routes'[r] # routes[r] =>
                 /\ isRouteValid(routes'[r], input.context)
                 /\ Len(routes'[r].stops) = Len(routes[r].stops)
                 /\ routes'[r].totalPallets = PalletSum(routes'[r].stops)
                 /\ FracLess(SlotScore(routes', r, 1), SlotScore(routes, r, 1))
                 /\ \A k \in 1..Len(routes'[r].stops) :
                      \E q \in 1..Len(routes) :
                        /\ SameSlot(routes[q], routes[r])
                        /\ CountId(routes'[r].stops[k].id, routes[q].stops) = 1
            /\ \A k \in 1..Len(routes[r].stops) :
                 SumSeq([q \in 1..Len(routes') |->
                          CountId(routes[r].stops[k].id, routes'[q].stops)]) = 1
       /\ (\A i, j \in 1..Len(routes) :
             i < j =>
               \A si \in 1..Len(routes[i].stops), sj \in 1..Len(routes[j].stops) :
                 ~Keepable(routes, i, j, si, sj))
            => routes' = routes]_vars

\* a first round in which no route was merged away and a swap was kept
C27_Witness ==
  /\ pc = "rebalance" /\ rebalance.iterations = 1 /\ rebalance.improved
  /\ Len(routes) = SumSeq([p \in 1..Len(SlotPairs(input.carriers)) |->
                            used[SlotPairs(input.carriers)[p][1]]
                                [SlotPairs(input.carriers)[p][2]]])

\* the shipments the Overflow Handler packs: those without a failure reason, by
\* descending pallets
Leftover ==
  SortByPalletsDesc(SelectSeq(unassigned, LAMBDA s : shipState[s.id].failureReason = ""))

\* a pseudo-carrier without a cost and with room for any load
Uncapacitated ==
  [name |-> "Overspill", costPerMile |-> 0, costPerRoute |-> 0,
   pallets36 |-> 1000, pallets48 |-> 1000, pallets53 |-> 1000]

\* first fit of the shipments from k on, the scorer set against that carrier
RECURSIVE PackFirstFit(_, _, _)
PackFirstFit(rs, ships, k) ==
  IF k > Len(ships) THEN rs
  ELSE LET takes == {r \in 1..Len(rs) :
                      checkAndScoreInsertion(ships[k], rs[r], input.context).ok}
       IN IF takes = {}
          THEN PackFirstFit(
                 Append(rs, [time |-> "23:00", carrier |-> Uncapacitated,
                             stops |-> <<ships[k]>>, totalPallets |-> ships[k].pallets,
                             cluster |-> "Overspill", routeId |-> "", seedAttempts |-> 0,
                             notes |-> ""]),
                 ships, k + 1)
          ELSE LET r == CHOOSE r \in takes : \A q \in takes : r <= q
               IN PackFirstFit(
                    [rs EXCEPT ![r].stops = Append(@, ships[k]),
                               ![r].totalPallets = @ + ships[k].pallets],
                    ships, k + 1)

\* the overspill rows the Overflow Handler has appended in this step
OverspillRows ==
  SelectSeq(SubSeq(sheet', Len(sheet) + 1, Len(sheet')),
            LAMBDA row : row.carrier = "Overspill")

\* the step of the Overflow Handler
OverflowHandled == pc = "remaining" /\ pc' = "done"

\* C28 (as stated): every leftover shipment without a failure reason ends on
\* exactly one overspill row, and the rows are those of a first fit in descending
\* pallet order with the scorer set against an uncapacitated pseudo-carrier: two
\* shipments share a row exactly when that first fit puts them on one route, so
\* no route refuses a shipment for its pallet total.
C28_OverspillFirstFitUncapacitated ==
  [][OverflowHandled =>
       /\ \A k \in 1..Len(Leftover) :
            SumSeq([r \in 1..Len(OverspillRows) |->
                     CountId(Leftover[k].id, OverspillRows[r].stops)]) = 1
       /\ \A k, m \in 1..Len(Leftover) :
            (\E r \in 1..Len(OverspillRows) :
               /\ CountId(Leftover[k].id, OverspillRows[r].stops) = 1
               /\ CountId(Leftover[m].id, OverspillRows[r].stops) = 1)
            <=> (\E route \in SeqToSet(PackFirstFit(<<>>, Leftover, 1)) :
                   /\ CountId(Leftover[k].id, route.stops) = 1
                   /\ CountId(Leftover[m].id, route.stops) = 1)]_vars

\* the slot whose spare unit is in turn in the pull-forward pass
UnitSlot == SlotPairs(input.carriers)[pullForward.k]

\* the attempt on one spare unit, from pool index j on: the shipments taken and the
\* ids the scorer rejected; the scan ends at the minimum per route
RECURSIVE Attempt(_, _, _, _)
Attempt(pool, j, taken, rejected) ==
  IF j > Len(pool) \/ PalletSum(taken) >= input.context.MIN_PALLETS_PER_ROUTE
  THEN [taken |-> taken, rejected |-> rejected]
  ELSE IF checkAndScoreInsertion(pool[j],
            [carrier |-> CarrierRef(input.carriers[UnitSlot[1]]),
             time |-> input.carriers[UnitSlot[1]].timeSlots[UnitSlot[2]].time,
             stops |-> Append(taken, pool[j]),
             totalPallets |-> PalletSum(taken) + pool[j].pallets,
             cluster |-> "", routeId |-> "", seedAttempts |-> 0, notes |-> ""],
            input.context).ok
    THEN Attempt(RemoveAt(pool, j), j, Append(taken, pool[j]), rejected)
  ELSE Attempt(pool, j + 1, taken, rejected \cup {pool[j].id})

\* the pallets reach the relaxed minimum of the pull-forward pass
ReachesRelaxedMinimum(stops) ==
  /\ PalletSum(stops) >= 15
  /\ PalletSum(stops) * input.context.RELAX_MIN_FACTOR_DEN
       >= input.context.MIN_PALLETS_PER_ROUTE * input.context.RELAX_MIN_FACTOR_NUM

\* one spare unit has had its turn
UnitTried == pc = "pullforward" /\ pc' = "pullforward"

\* C29: for a spare unit the pass creates a route and charges the slot once exactly
\* when the pallets taken reach the relaxed minimum: the route holds the shipments
\* taken, on the unit's carrier and slot, and they have left the pool.  Otherwise
\* the used-counts and the routes created are unchanged and every shipment of the
\* pool is in the pool once.  A shipment the scorer rejected in the attempt has its
\* insertion-failure counter one higher and is in the pool.
C29_PullForwardUnit ==
  [][UnitTried =>
       /\ IF ReachesRelaxedMinimum(Attempt(unassigned, 1, <<>>, {}).taken)
          THEN /\ Len(pullForward'.routesCreated) = Len(pullForward.routesCreated) + 1
               /\ SubSeq(pullForward'.routesCreated, 1, Len(pullForward.routesCreated))
                    = pullForward.routesCreated
               /\ \E route \in {pullForward'.routesCreated[Len(pullForward'.routesCreated)]} :
                    /\ route.stops = Attempt(unassigned, 1, <<>>, {}).taken
                    /\ route.totalPallets = PalletSum(route.stops)
                    /\ route.carrier.name = input.carriers[UnitSlot[1]].name
                    /\ route.time = input.carriers[UnitSlot[1]].timeSlots[UnitSlot[2]].time
               /\ used' = [used EXCEPT ![UnitSlot[1]][UnitSlot[2]] = @ + 1]
               /\ \A i \in 1..Len(unassigned) :
                    CountId(unassigned[i].id, unassigned')
                      = 1 - CountId(unassigned[i].id, Attempt(unassigned, 1, <<>>, {}).taken)
               /\ Len(unassigned') + Len(Attempt(unassigned, 1, <<>>, {}).taken)
                    = Len(unassigned)
          ELSE /\ pullForward'.routesCreated = pullForward.routesCreated
               /\ used' = used
               /\ Len(unassigned') = Len(unassigned)
               /\ \A i \in 1..Len(unassigned) : CountId(unassigned[i].id, unassigned') = 1
       /\ \A i \in 1..Len(unassigned) :
            unassigned[i].id \in Attempt(unassigned, 1, <<>>, {}).rejected =>
              /\ shipState'[unassigned[i].id].insertionFailures
                   = shipState[unassigned[i].id].insertionFailures + 1
              /\ CountId(unassigned[i].id, unassigned') = 1
       /\ routes' = routes]_vars

\* a spare unit fell short: no route has been created, and a shipment that had
\* used up its attempts in the main loop is back in the pool, its failure counter
\* reset by the attempt that took it
C29_Witness ==
  /\ pc = "pullforward" /\ pullForward.routesCreated = <<>>
  /\ \E i \in 1..Len(unassigned) :
       /\ shipState[unassigned[i].id].failureReason = ""
       /\ shipState[unassigned[i].id].attempts = MAX_PLANNING_ATTEMPTS
       /\ shipState[unassigned[i].id].insertionFailures = 0

====
